---- MODULE Spec2Model ----
(***************************************************************************)
(* Orchestration substrate of the LionAGI QE fleet:                        *)
(*   QEOrchestrator (core/orchestrator.py), BaseQEAgent (core/base_agent.py)*)
(*   and the alcall batches of core/orchestrator.py and                    *)
(*   agents/test_executor.py, QEFleet (core/fleet.py) and the methods of   *)
(*   TestGeneratorAgent (agents/test_generator.py) that learn patterns.    *)
(* QETask (core/task.py) and QEMemory (core/memory.py) are not part of the *)
(* available sources; they are modelled from sections 3, 4.1 and 4.2 of    *)
(* the specification.                                                      *)
(*                                                                         *)
(* Every await of the code is a suspension point: an action of the model   *)
(* runs one coroutine from one suspension point to the next.               *)
(***************************************************************************)
EXTENDS Integers, Sequences, FiniteSets, TLC

\* ------------------------------------------------------------- bounds
MaxCalls == 2
MaxTasks == 2

\* ------------------------------------------------------------- universe
None == "None"
\* "no agent" and "no result" among agent objects and result values
NoAgent == [agent_id |-> "None", enable_learning |-> FALSE, operate |-> "None"]
NoResult == [agent_id |-> "None", context |-> "None"]

AgentIds == {"test-executor", "a2"}

\* The agent objects a caller may construct and register. Several carry the
\* same agent_id, so registering the second replaces the first. operate
\* names the method the object answers operate(...) with: "BaseQEAgent" is
\* operate(instruction, context, response_format) of the base class, which
\* no agent class overrides; "AsyncMock" is a replacement put on the object
\* that takes any keywords.
AgentObjs ==
    { [agent_id |-> "test-executor", enable_learning |-> FALSE,
       operate |-> "BaseQEAgent"],
      [agent_id |-> "a2", enable_learning |-> TRUE, operate |-> "BaseQEAgent"],
      [agent_id |-> "a2", enable_learning |-> FALSE, operate |-> "BaseQEAgent"],
      [agent_id |-> "a2", enable_learning |-> FALSE, operate |-> "AsyncMock"] }

\* the TestExecutorAgent of the fleet, under the id its execute reads the
\* last execution of
TestExecutor == [agent_id |-> "test-executor", enable_learning |-> FALSE,
                 operate |-> "BaseQEAgent"]

\* The registered objects that are instances of TestExecutorAgent: the one
\* under the id its execute reads the previous execution from. The others
\* are agents whose execute leaves the store alone.
TestExecutorAgents == { TestExecutor }

\* The agents that learn patterns; an agent_id is any string
Learners == { [agent_id |-> i, enable_learning |-> TRUE,
               operate |-> "BaseQEAgent"] : i \in {"ax", "a."} }

CallIds == 1..MaxCalls
TaskIds == 1..MaxTasks

VARIABLES
    agents,        \* QEOrchestrator.agents: agent_id -> agent object | NoAgent
    agentMetrics,  \* BaseQEAgent.metrics of every agent object
    metrics,       \* QEOrchestrator.metrics
    memory,        \* QEMemory: key -> entry
    tasks,         \* the QETask objects
    calls,         \* the execute_agent coroutines
    finished,      \* the coroutines that have ended, in the order they ended
    batch,         \* the execute_parallel call and its alcall
    signal,        \* the last QETask method a caller invoked, and its outcome
    exec,          \* TestExecutorAgent.execute_tests_parallel and its alcall
    pipe,          \* the execute_pipeline call and its session.flow
    fan,           \* the execute_fan_out_fan_in call
    clock,         \* the clock of the store, in seconds
    lastRead,      \* the last read of the store and what it returned
    snapshot,      \* the last value export_state returned
    lastRegistered, \* agent_id -> the last object register_agent was given
    fleet,         \* QEFleet: its initialized flag and the calls made on it
    gen            \* a running execute_with_reasoning / generate_tests_streaming

vars == <<agents, agentMetrics, metrics, memory, tasks, calls, finished, batch,
          signal, exec, pipe, fan, clock, lastRead, snapshot, lastRegistered, fleet, gen>>

\* ------------------------------------------------------------- QETask
\* A transition returns ok = FALSE when it raises TaskStateError; the task
\* is then left as it was.
NewTask(context) ==
    [status |-> "PENDING", context |-> context, result |-> NoResult,
     error |-> None, agent_id |-> None]

\* mark_in_progress without its check of the current state
mark_in_progress_unguarded(task, agent_id) ==
    [ok |-> TRUE,
     task |-> [task EXCEPT !.status = "IN_PROGRESS", !.agent_id = agent_id]]

mark_in_progress(task, agent_id) ==
    IF task.status = "PENDING"
    THEN [ok |-> TRUE,
          task |-> [task EXCEPT !.status = "IN_PROGRESS", !.agent_id = agent_id]]
    ELSE [ok |-> FALSE, task |-> task]

\* mark_completed without its check of the current state
mark_completed_unguarded(task, result) ==
    [ok |-> TRUE, task |-> [task EXCEPT !.status = "COMPLETED", !.result = result]]

mark_completed(task, result) ==
    IF task.status = "IN_PROGRESS"
    THEN [ok |-> TRUE,
          task |-> [task EXCEPT !.status = "COMPLETED", !.result = result]]
    ELSE [ok |-> FALSE, task |-> task]

\* mark_failed without its check of the current state
mark_failed_unguarded(task, error) ==
    [ok |-> TRUE, task |-> [task EXCEPT !.status = "FAILED", !.error = error]]

mark_failed(task, error) ==
    IF task.status = "IN_PROGRESS"
    THEN [ok |-> TRUE,
          task |-> [task EXCEPT !.status = "FAILED", !.error = error]]
    ELSE [ok |-> FALSE, task |-> task]

\* ------------------------------------------------------------- QEMemory
\* ttl=None: the entry does not expire
NoTTL == -1

\* a store that keeps nothing but the entry it writes
store_dropping_others(mem, key, value, ttl, partition) ==
    [k \in {key} |->
        [value |-> value, ttl |-> ttl, partition |-> partition,
         stored_at |-> clock]]

\* store: upsert, last writer wins; the entry is readable for ttl seconds
\* from the call.
store(mem, key, value, ttl, partition) ==
    [k \in (DOMAIN mem) \cup {key} |->
        IF k = key
        THEN [value |-> value, ttl |-> ttl, partition |-> partition,
              stored_at |-> clock]
        ELSE mem[k]]

\* an entry that never counts as expired
never_expired(e, now) == FALSE

\* an entry is expired once ttl seconds have passed since its store
expired(e, now) == e.ttl # NoTTL /\ now >= e.stored_at + e.ttl

\* retrieve: the value in a one-element list, or the empty list for absent;
\* it does not raise
retrieve(mem, key, now) ==
    IF key \in DOMAIN mem /\ ~expired(mem[key], now)
    THEN <<mem[key].value>>
    ELSE << >>

\* one pattern symbol against one key symbol
sym_matches(c, x) == c = "." \/ c = x

\* the regular expression p, a list of symbols in which "." stands for any
\* symbol and "*" repeats the symbol before it, matches a prefix of the key s
RECURSIVE re_match(_, _)
re_match(p, s) ==
    IF p = << >> THEN TRUE
    ELSE IF Len(p) >= 2 /\ p[2] = "*"
    THEN \/ re_match(Tail(Tail(p)), s)
         \/ s # << >> /\ sym_matches(p[1], s[1]) /\ re_match(p, Tail(s))
    ELSE s # << >> /\ sym_matches(p[1], s[1]) /\ re_match(Tail(p), Tail(s))

\* search: the non-expired entries whose key matches the pattern
search(mem, pattern, now) ==
    [k \in { k \in DOMAIN mem : re_match(pattern, k) /\ ~expired(mem[k], now) }
        |-> mem[k].value]

\* export_state of the store (sections 4.1 and 6): the readable entries,
\* serialized with their partition and their still-valid ttl. Sections 6
\* and 9 leave the form of the ttl open: "absolute" keeps the time of
\* expiry, "relative" the seconds that are left at the export.
memory_export_state(mem, now, ttls) ==
    [k \in { k \in DOMAIN mem : ~expired(mem[k], now) } |->
        [value |-> mem[k].value, partition |-> mem[k].partition,
         ttls |-> IF mem[k].ttl = NoTTL THEN "none" ELSE ttls,
         ttl |-> IF mem[k].ttl = NoTTL THEN NoTTL
                 ELSE IF ttls = "absolute" THEN mem[k].stored_at + mem[k].ttl
                 ELSE mem[k].stored_at + mem[k].ttl - now]]

\* an import that restores nothing
memory_import_state_restoring_nothing(mem, snap, now, policy) ==
    IF policy = "merge" THEN mem ELSE << >>

\* import_state of the store (sections 4.1 and 6): the entries of the
\* snapshot whose ttl is still valid are restored, an absolute expiry as it
\* was, a relative ttl re-based on the time of the import. Sections 4.1
\* and 9 leave open whether the import replaces what the store holds or
\* merges the snapshot into it.
memory_import_state(mem, snap, now, policy) ==
    LET valid == { k \in DOMAIN snap :
                      snap[k].ttls = "absolute" => snap[k].ttl > now }
        restored(e) == [value |-> e.value, partition |-> e.partition,
                        stored_at |-> now,
                        ttl |-> IF e.ttls = "absolute" THEN e.ttl - now
                                ELSE e.ttl]
    IN  [k \in (IF policy = "merge" THEN DOMAIN mem ELSE {}) \cup valid |->
            IF k \in valid THEN restored(snap[k]) ELSE mem[k]]

\* ------------------------------------------------------------- BaseQEAgent
\* full_key = f"aqe/{self.agent_id}/{key}"
full_key(agent, key) == <<"aqe", agent.agent_id>> \o key

\* store_result with the default partition and with an explicit one
store_result(mem, agent, key, value, ttl, partition) ==
    store(mem, full_key(agent, key), value, ttl, partition)

ResultTTL == 86400
ErrorTTL == 604800
LearningTTL == 2592000

\* the keys of post_execution_hook, error_handler and _learn_from_execution
result_key(t) == <<"tasks", t, "result">>
error_key(t) == <<"tasks", t, "error">>
trajectory_key(t) == <<"learning", "trajectories", t>>

\* what an agent's execute returns for a task (opaque to the orchestrator)
execute_result(agent, task) ==
    [agent_id |-> agent.agent_id, context |-> task.context]

\* error_handler's value for the store
error_record(task, e) == [error |-> e, context |-> task.context]

\* _learn_from_execution's trajectory
trajectory(task, result) ==
    [context |-> task.context, result |-> result, success |-> TRUE]

\* ------------------------------------------------------------- QEOrchestrator
\* a lookup that falls back to some agent object when the id is unknown
get_agent_or_any(agent_id) ==
    IF agents[agent_id] = NoAgent
    THEN CHOOSE o \in AgentObjs : TRUE
    ELSE agents[agent_id]

get_agent(agent_id) == agents[agent_id]

IdleCall ==
    [pc |-> "idle", agent |-> NoAgent, agent_id |-> None, task |-> 0,
     status0 |-> None, result |-> NoResult, exc |-> None, site |-> None,
     out |-> None, steps |-> << >>, previous_results |-> << >>]

IdleBatch ==
    [pc |-> "idle", agent_ids |-> << >>, tasks |-> << >>, results |-> << >>]

NoSignal == [task |-> 0, method |-> None, ok |-> TRUE]

IdleExec == [pc |-> "idle", test_files |-> 0, started |-> 0, item |-> << >>]

\* nothing read yet, nothing exported yet
NoRead == [op |-> None, arg |-> None, found |-> << >>, raised |-> FALSE, at |-> 0]
NoSnapshot == [pc |-> "idle", memory |-> << >>, router_stats |-> None,
               before |-> << >>, source |-> << >>, taken |-> FALSE]

IdlePipe == [pc |-> "idle", pipeline |-> << >>, nodes |-> << >>, out |-> None]

\* requests counts the calls of coordinator.communicate, synthesis is what
\* the last one answered, ret the dict returned
IdleFan ==
    [pc |-> "idle", coordinator_agent |-> None, coordinator |-> NoAgent,
     registered |-> FALSE, worker_agents |-> << >>, subtasks |-> << >>,
     requests |-> 0, synthesis |-> None, out |-> None,
     ret |-> [decomposition |-> << >>, worker_results |-> << >>,
              synthesis |-> None]]

\* The call of TestGeneratorAgent.execute_with_reasoning or
\* generate_tests_streaming that is running or ran last: the method, the
\* agent, the task, the coverage target of the task, quality_improvement
\* as computed from the trace, and the exception that left the call
IdleGen ==
    [pc |-> "idle", method |-> None, agent |-> NoAgent, task |-> 0,
     coverage_target |-> 0, quality_improvement |-> 0, out |-> None]

\* QEFleet.__init__: self.initialized = False. called is whether initialize
\* or an execute* method was ever called, inits the number of times
\* initialize ran past its check. pc is the await a get_status coroutine is
\* suspended in, agent_statuses (the ids it holds) and total_agents what the
\* coroutine has put into its answer so far, status what the last get_status
\* returned (None while one is suspended).
NewFleet == [initialized |-> FALSE, called |-> FALSE, inits |-> 0,
             pc |-> "idle", agent_statuses |-> {}, total_agents |-> 0,
             status |-> None]

Init ==
    /\ agents = [a \in AgentIds |-> NoAgent]
    /\ agentMetrics = [o \in AgentObjs \cup Learners |->
                          [tasks_completed |-> 0, tasks_failed |-> 0,
                           patterns_learned |-> 0]]
    /\ metrics = [workflows_executed |-> 0, total_agents_used |-> 0]
    /\ memory = << >>
    /\ tasks = [t \in TaskIds |-> NewTask("k1")]
    /\ calls = [c \in CallIds |-> IdleCall]
    /\ finished = << >>
    /\ batch = IdleBatch
    /\ signal = NoSignal
    /\ exec = IdleExec
    /\ pipe = IdlePipe
    /\ fan = IdleFan
    /\ clock = 0
    /\ lastRead = NoRead
    /\ snapshot = NoSnapshot
    /\ lastRegistered = [a \in AgentIds |-> NoAgent]
    /\ fleet = NewFleet
    /\ gen = IdleGen

\* a registry that keeps the first object registered under an id
register_agent_once(agent) ==
    /\ agents[agent.agent_id] # agent
    /\ agents' = IF agents[agent.agent_id] = NoAgent
                 THEN [agents EXCEPT ![agent.agent_id] = agent]
                 ELSE agents
    /\ lastRegistered' = [lastRegistered EXCEPT ![agent.agent_id] = agent]
    /\ UNCHANGED <<agentMetrics, metrics, memory, tasks, calls, finished, batch, signal, exec, pipe, fan, clock, lastRead, snapshot, fleet, gen>>

\* register_agent: self.agents[agent.agent_id] = agent
register_agent(agent) ==
    /\ agents[agent.agent_id] # agent
    /\ agents' = [agents EXCEPT ![agent.agent_id] = agent]
    /\ lastRegistered' = [lastRegistered EXCEPT ![agent.agent_id] = agent]
    /\ UNCHANGED <<agentMetrics, metrics, memory, tasks, calls, finished, batch, signal, exec, pipe, fan, clock, lastRead, snapshot, fleet, gen>>

\* an agent whose execute ends with its own call of post_execution_hook
hooks_inside_execute_at_end(agent) == <<"post_execution_hook">>

\* The hooks an agent's execute has invoked itself when it returns: none.
\* (CoverageAnalyzerAgent.execute holds such a call in its last statement
\* but raises AttributeError, on self.get_memory, before it gets there.)
hooks_inside_execute(agent) == << >>

\* The except clause of execute_agent up to the await inside error_handler:
\* tasks_failed += 1, then the coroutine waits for memory.store. exc is the
\* exception e the clause caught, site the statement that raised it.
enter_handler(c, e, site) ==
    /\ calls' = [calls EXCEPT ![c].pc = "err_store", ![c].exc = e,
                              ![c].site = site,
                              ![c].previous_results = << >>,
                              ![c].steps = @ \o (IF site = "mark_completed"
                                                 THEN <<"mark_completed">>
                                                 ELSE << >>)
                                             \o <<"error_handler">>]
    /\ agentMetrics' =
          [agentMetrics EXCEPT ![calls[c].agent].tasks_failed = @ + 1]
    /\ UNCHANGED finished

\* task.mark_completed(result); return result -- or the except clause when
\* mark_completed raises.
complete(c) ==
    LET t == calls[c].task
        r == mark_completed(tasks[t], calls[c].result)
    IN  IF r.ok
        THEN /\ tasks' = [tasks EXCEPT ![t] = r.task]
             /\ calls' = [calls EXCEPT ![c].pc = "returned",
                                       ![c].steps = Append(@, "mark_completed")]
             /\ finished' = Append(finished, c)
             /\ UNCHANGED agentMetrics
        ELSE /\ enter_handler(c, "TaskStateError", "mark_completed")
             /\ UNCHANGED tasks

\* execute_agent from its call to the await of agent.execute; task is the
\* QETask object handed in, stored as tasks[t]
execute_agent_begin(c, agent_id, t, task) ==
    LET agent == get_agent(agent_id)
        r == mark_in_progress(task, agent_id)
        call == [IdleCall EXCEPT !.agent_id = agent_id, !.task = t,
                                 !.status0 = task.status]
    IN  IF agent = NoAgent
        THEN /\ calls' = [calls EXCEPT ![c] =
                    [call EXCEPT !.pc = "raised", !.out = "AgentNotFound"]]
             /\ finished' = Append(finished, c)
             /\ tasks' = [tasks EXCEPT ![t] = task]
             /\ UNCHANGED agentMetrics
        ELSE IF r.ok
        THEN /\ tasks' = [tasks EXCEPT ![t] = r.task]
             /\ calls' = [calls EXCEPT ![c] =
                    [call EXCEPT !.pc = "execute", !.agent = agent,
                                 !.steps = <<"mark_in_progress",
                                             "pre_execution_hook", "execute">>]]
             /\ UNCHANGED <<agentMetrics, finished>>
        ELSE /\ calls' = [calls EXCEPT ![c] =
                    [call EXCEPT !.pc = "err_store", !.agent = agent,
                                 !.exc = "TaskStateError",
                                 !.site = "mark_in_progress",
                                 !.steps = <<"mark_in_progress",
                                             "error_handler">>]]
             /\ agentMetrics' =
                    [agentMetrics EXCEPT ![agent].tasks_failed = @ + 1]
             /\ tasks' = [tasks EXCEPT ![t] = task]
             /\ UNCHANGED finished

\* orchestrator.execute_agent(agent_id, task) is awaited: coroutine c runs
\* it on the QETask object t
QEOrchestrator_execute_agent(c, agent_id, t) ==
    /\ calls[c].pc = "idle"
    /\ execute_agent_begin(c, agent_id, t, tasks[t])
    /\ UNCHANGED <<agents, metrics, memory, batch, signal, exec, pipe, fan, clock, lastRead, snapshot, lastRegistered, gen>>

\* a caller awaits orchestrator.execute_agent directly. The callers'
\* coroutines and QETask objects are numbered in the order of their first use.
execute_agent(c, agent_id, t) ==
    /\ \A d \in CallIds : d < c => calls[d].pc # "idle"
    /\ \A u \in TaskIds : u < t => \E d \in CallIds : calls[d].task = u
    /\ QEOrchestrator_execute_agent(c, agent_id, t)
    /\ UNCHANGED fleet

\* agent.execute returns result (its local previous_results is gone):
\* post_execution_hook counts the task and awaits the store of the result
return_from_execute(c, result) ==
    /\ calls' = [calls EXCEPT ![c].pc = "post_store",
                   ![c].result = result,
                   ![c].previous_results = << >>,
                   ![c].steps = @ \o hooks_inside_execute(calls[c].agent)
                                  \o <<"post_execution_hook">>]
    /\ agentMetrics' =
          [agentMetrics EXCEPT ![calls[c].agent].tasks_completed = @ + 1]

\* the execute of an agent that stores nothing returns
execute_returns(c) ==
    /\ calls[c].pc = "execute"
    /\ calls[c].agent \notin TestExecutorAgents
    /\ return_from_execute(c, execute_result(calls[c].agent, tasks[calls[c].task]))
    /\ UNCHANGED <<agents, metrics, memory, tasks, finished, batch, signal, exec, pipe, fan, clock, lastRead, snapshot, lastRegistered, fleet, gen>>

\* the success rates a TestExecutionResult may report
SuccessRates == {50, 100}

\* TestExecutorAgent.execute is suspended in retrieve_context (pc "execute");
\* memory.retrieve returns previous_results, the value under
\* "aqe/test-executor/last_execution" whatever the id of the agent, or None,
\* and the agent awaits self.operate
TestExecutorAgent_retrieve_returns(c) ==
    /\ calls[c].pc = "execute"
    /\ calls[c].agent \in TestExecutorAgents
    /\ calls' = [calls EXCEPT ![c].pc = "operate",
                   ![c].previous_results =
                       retrieve(memory,
                                <<"aqe", "test-executor", "last_execution">>,
                                clock)]
    /\ UNCHANGED <<agents, agentMetrics, metrics, memory, tasks, finished, batch, signal, exec, pipe, fan, clock, lastRead, snapshot, lastRegistered, fleet, gen>>

\* self.operate returns a TestExecutionResult; the agent awaits
\* store_result("last_execution", result.model_dump())
TestExecutorAgent_operate_returns(c, success_rate) ==
    /\ calls[c].pc = "operate"
    /\ calls' = [calls EXCEPT ![c].pc = "exec_store",
                   ![c].result =
                       [agent_id |-> calls[c].agent.agent_id,
                        context |-> tasks[calls[c].task].context,
                        success_rate |-> success_rate]]
    /\ UNCHANGED <<agents, agentMetrics, metrics, memory, tasks, finished, batch, signal, exec, pipe, fan, clock, lastRead, snapshot, lastRegistered, fleet, gen>>

\* the store of last_execution succeeds (ttl None, partition agent_results):
\* "if previous_results and result.success_rate <
\* previous_results.get('success_rate', 100)" the agent awaits the store of
\* potential_flaky_tests, else execute returns
TestExecutorAgent_store_ok(c) ==
    /\ calls[c].pc = "exec_store"
    /\ memory' = store_result(memory, calls[c].agent, <<"last_execution">>,
                              calls[c].result, NoTTL, "agent_results")
    /\ IF /\ calls[c].previous_results # << >>
          /\ calls[c].result.success_rate <
                 (IF "success_rate" \in DOMAIN calls[c].previous_results[1]
                  THEN calls[c].previous_results[1].success_rate
                  ELSE 100)
       THEN /\ calls' = [calls EXCEPT ![c].pc = "flaky_store"]
            /\ UNCHANGED agentMetrics
       ELSE return_from_execute(c, calls[c].result)
    /\ UNCHANGED <<agents, metrics, tasks, finished, batch, signal, exec, pipe, fan, clock, lastRead, snapshot, lastRegistered, fleet, gen>>

\* the store of potential_flaky_tests succeeds and execute returns.
\* previous_rate is previous_results.get("success_rate"): None when the
\* value read has no such entry. The timestamp of the record, the creation
\* time of the task, is left out
TestExecutorAgent_flaky_store_ok(c) ==
    /\ calls[c].pc = "flaky_store"
    /\ memory' = store_result(memory, calls[c].agent, <<"potential_flaky_tests">>,
                              [current_rate |-> calls[c].result.success_rate,
                               previous_rate |->
                                   IF "success_rate" \in
                                          DOMAIN calls[c].previous_results[1]
                                   THEN calls[c].previous_results[1].success_rate
                                   ELSE None],
                              NoTTL, "agent_results")
    /\ return_from_execute(c, calls[c].result)
    /\ UNCHANGED <<agents, metrics, tasks, finished, batch, signal, exec, pipe, fan, clock, lastRead, snapshot, lastRegistered, fleet, gen>>

\* TestExecutorAgent.execute: memory.store raises in either store, and so
\* does execute
TestExecutorAgent_store_fails(c) ==
    /\ calls[c].pc \in {"exec_store", "flaky_store"}
    /\ enter_handler(c, "StoreError", "execute")
    /\ UNCHANGED <<agents, metrics, memory, tasks, batch, signal, exec, pipe, fan, clock, lastRead, snapshot, lastRegistered, fleet, gen>>

\* agent.execute raises: from its own work, or in a TestExecutorAgent from
\* retrieve_context or self.operate
execute_raises(c) ==
    /\ calls[c].pc \in {"execute", "operate"}
    /\ enter_handler(c, "AgentError", "execute")
    /\ UNCHANGED <<agents, metrics, memory, tasks, batch, signal, exec, pipe, fan, clock, lastRead, snapshot, lastRegistered, fleet, gen>>

\* post_execution_hook: the store of the result succeeds
post_store_ok(c) ==
    /\ calls[c].pc = "post_store"
    /\ memory' = store_result(memory, calls[c].agent, result_key(calls[c].task),
                              calls[c].result, ResultTTL, "agent_results")
    /\ IF calls[c].agent.enable_learning
       THEN /\ calls' = [calls EXCEPT ![c].pc = "learn_store"]
            /\ UNCHANGED <<tasks, agentMetrics, finished>>
       ELSE complete(c)
    /\ UNCHANGED <<agents, metrics, batch, signal, exec, pipe, fan, clock, lastRead, snapshot, lastRegistered, fleet, gen>>

\* post_execution_hook: memory.store raises
post_store_fails(c) ==
    /\ calls[c].pc = "post_store"
    /\ enter_handler(c, "StoreError", "post_store")
    /\ UNCHANGED <<agents, metrics, memory, tasks, batch, signal, exec, pipe, fan, clock, lastRead, snapshot, lastRegistered, fleet, gen>>

\* _learn_from_execution: the store of the trajectory succeeds
learn_store_ok(c) ==
    /\ calls[c].pc = "learn_store"
    /\ memory' = store_result(memory, calls[c].agent, trajectory_key(calls[c].task),
                              trajectory(tasks[calls[c].task], calls[c].result),
                              LearningTTL, "learning")
    /\ complete(c)
    /\ UNCHANGED <<agents, metrics, batch, signal, exec, pipe, fan, clock, lastRead, snapshot, lastRegistered, fleet, gen>>

\* _learn_from_execution: memory.store raises
learn_store_fails(c) ==
    /\ calls[c].pc = "learn_store"
    /\ enter_handler(c, "StoreError", "learn_store")
    /\ UNCHANGED <<agents, metrics, memory, tasks, batch, signal, exec, pipe, fan, clock, lastRead, snapshot, lastRegistered, fleet, gen>>

\* error_handler: the store of the error succeeds; then
\* task.mark_failed(str(e)); raise. out is the exception that leaves
\* execute_agent: e, or the TaskStateError of mark_failed.
err_store_ok(c) ==
    LET t == calls[c].task
        r == mark_failed(tasks[t], calls[c].exc)
    IN  /\ calls[c].pc = "err_store"
        /\ memory' = store_result(memory, calls[c].agent, error_key(t),
                                  error_record(tasks[t], calls[c].exc),
                                  ErrorTTL, "agent_results")
        /\ tasks' = [tasks EXCEPT ![t] = r.task]
        /\ calls' = [calls EXCEPT ![c].pc = "raised",
                       ![c].out = IF r.ok THEN calls[c].exc ELSE "TaskStateError",
                       ![c].steps = Append(@, "mark_failed")]
        /\ finished' = Append(finished, c)
        /\ UNCHANGED <<agents, metrics, agentMetrics, batch, signal, exec, pipe, fan, clock, lastRead, snapshot, lastRegistered, fleet, gen>>

\* error_handler: memory.store raises inside the except clause
err_store_fails(c) ==
    /\ calls[c].pc = "err_store"
    /\ calls' = [calls EXCEPT ![c].pc = "raised", ![c].out = "StoreError"]
    /\ finished' = Append(finished, c)
    /\ UNCHANGED <<agents, metrics, memory, tasks, agentMetrics, batch, signal, exec, pipe, fan, clock, lastRead, snapshot, lastRegistered, fleet, gen>>

\* a timeout that reaches the caller while the coroutine runs on
cancel_caller_only(call) == [call EXCEPT !.out = "TimeoutError", !.site = call.pc]

\* the caller's asyncio.wait_for cancels the coroutine at the await it is
\* suspended in: CancelledError is no Exception, so the except clause of
\* execute_agent does not run, and the caller gets asyncio.TimeoutError
cancel(call) ==
    [call EXCEPT !.pc = "cancelled", !.out = "TimeoutError", !.site = call.pc,
                 !.previous_results = << >>]

\* the deadline the caller put on execute_agent expires
deadline_expires(c) ==
    /\ calls[c].pc \in {"execute", "operate", "exec_store", "flaky_store",
                       "post_store", "learn_store", "err_store"}
    /\ calls' = [calls EXCEPT ![c] = cancel(calls[c])]
    /\ UNCHANGED <<agents, agentMetrics, metrics, memory, tasks, finished, batch,
                   signal, exec, pipe, fan, clock, lastRead, snapshot, lastRegistered, fleet, gen>>

\* the steps of a running execute_agent coroutine
Step(c) ==
    \/ execute_returns(c)
    \/ TestExecutorAgent_retrieve_returns(c)
    \/ \E r \in SuccessRates : TestExecutorAgent_operate_returns(c, r)
    \/ TestExecutorAgent_store_ok(c)
    \/ TestExecutorAgent_flaky_store_ok(c)
    \/ TestExecutorAgent_store_fails(c)
    \/ execute_raises(c)
    \/ post_store_ok(c)
    \/ post_store_fails(c)
    \/ learn_store_ok(c)
    \/ learn_store_fails(c)
    \/ err_store_ok(c)
    \/ err_store_fails(c)

\* the callers register one agent per id: the TestExecutorAgent and the
\* agent that learns
Next ==
    \/ \E o \in {TestExecutor, [agent_id |-> "a2", enable_learning |-> TRUE,
                                operate |-> "BaseQEAgent"]} :
          register_agent(o)
    \/ \E c \in CallIds, a \in AgentIds, t \in TaskIds : execute_agent(c, a, t)
    \/ \E c \in CallIds : Step(c)
    \/ \E c \in CallIds : deadline_expires(c)

Spec == Init /\ [][Next]_vars

\* ------------------------------------------------------------- execute_parallel
SeqsUpTo(S, n) == UNION { [1..k -> S] : k \in 0..n }

\* the lists of task contexts a caller passes: neighbours differ
ContextLists(n) ==
    { [i \in 1..k |-> IF i % 2 = 1 THEN "k1" ELSE "k2"] : k \in 0..n }

\* tasks_with_agents = list(zip(agent_ids, tasks)): the shorter list decides
zip(agent_ids, task_contexts) ==
    [i \in 1..(IF Len(agent_ids) <= Len(task_contexts)
               THEN Len(agent_ids) ELSE Len(task_contexts)) |->
        <<agent_ids[i], task_contexts[i]>>]

tasks_with_agents == zip(batch.agent_ids, batch.tasks)

\* item i of the batch runs as coroutine i on the QETask object i
Items == 1..Len(tasks_with_agents)

\* execute_parallel up to its await of alcall, which schedules one run_agent
\* per pair
QEOrchestrator_execute_parallel(agent_ids, task_contexts) ==
    /\ batch.pc = "idle"
    /\ batch' = [batch EXCEPT !.pc = "running", !.agent_ids = agent_ids,
                              !.tasks = task_contexts]
    /\ UNCHANGED <<agents, agentMetrics, metrics, memory, tasks, calls, finished, signal, exec, pipe, fan, clock, lastRead, snapshot, lastRegistered, gen>>

\* a caller awaits orchestrator.execute_parallel directly
execute_parallel(agent_ids, task_contexts) ==
    /\ QEOrchestrator_execute_parallel(agent_ids, task_contexts)
    /\ UNCHANGED fleet

\* run_agent(x[0], x[1]): the registry lookup, a new QETask for the context,
\* then execute_agent on it. The event loop starts the scheduled coroutines
\* in the order alcall scheduled them.
run_agent(i) ==
    /\ batch.pc = "running"
    /\ i \in Items
    /\ calls[i].pc = "idle"
    /\ \A j \in Items : j < i => calls[j].pc # "idle"
    /\ execute_agent_begin(i, tasks_with_agents[i][1], i,
                           NewTask(tasks_with_agents[i][2]))
    /\ UNCHANGED <<agents, metrics, memory, batch, signal, exec, pipe, fan, clock, lastRead, snapshot, lastRegistered, fleet, gen>>

\* an output list filled in the order the calls ended
alcall_output_as_completed(n) == [i \in 1..n |-> calls[finished[i]].result]

\* alcall's output list: slot i holds what the call on pair i returned
alcall_output(n) == [i \in 1..n |-> calls[i].result]

\* every run_agent has returned: alcall returns its list, execute_parallel
\* counts the agents and returns the list
alcall_returns ==
    /\ batch.pc = "running"
    /\ \A i \in Items : calls[i].pc = "returned"
    /\ batch' = [batch EXCEPT !.pc = "returned",
                              !.results = alcall_output(Len(tasks_with_agents))]
    /\ metrics' = [metrics EXCEPT !.total_agents_used = @ + Len(batch.agent_ids)]
    /\ UNCHANGED <<agents, agentMetrics, memory, tasks, calls, finished, signal, exec, pipe, fan, clock, lastRead, snapshot, lastRegistered, fleet, gen>>

\* alcall is called with its defaults (retry_attempts = 0, no retry_default,
\* return_exceptions = False): an exception of one run_agent leaves its task
\* group, which cancels the run_agent coroutines still running (CancelledError
\* passes execute_agent's "except Exception"), and alcall raises. The lines
\* of execute_parallel after the await are not reached.
alcall_raises ==
    /\ batch.pc = "running"
    /\ \E i \in Items : calls[i].pc = "raised"
    /\ batch' = [batch EXCEPT !.pc = "raised"]
    /\ calls' = [c \in CallIds |->
                    IF c \in Items /\ calls[c].pc \notin {"returned", "raised"}
                    THEN [calls[c] EXCEPT !.pc = "cancelled",
                                          !.previous_results = << >>]
                    ELSE calls[c]]
    /\ UNCHANGED <<agents, agentMetrics, metrics, memory, tasks, finished, signal, exec, pipe, fan, clock, lastRead, snapshot, lastRegistered, fleet, gen>>

\* the agents registered are instances of the agent classes, with the
\* operate of the base class
NextParallel ==
    \/ \E o \in {a \in AgentObjs : a.operate = "BaseQEAgent"} : register_agent(o)
    \/ \E ids \in SeqsUpTo(AgentIds, MaxCalls), ctxs \in ContextLists(MaxTasks) :
          execute_parallel(ids, ctxs)
    \/ \E i \in CallIds : run_agent(i)
    \/ \E c \in CallIds : Step(c)
    \/ alcall_returns
    \/ alcall_raises

SpecParallel == Init /\ [][NextParallel]_vars

\* ------------------------------------------------------------- callers of QETask
\* A caller invokes a method of a QETask object directly; signal records the
\* call and whether it returned (ok) or raised TaskStateError.
orchVars == <<agents, agentMetrics, metrics, memory, calls, finished, batch>>

call_mark_in_progress(t, agent_id) ==
    LET r == mark_in_progress(tasks[t], agent_id)
    IN  /\ tasks' = [tasks EXCEPT ![t] = r.task]
        /\ signal' = [task |-> t, method |-> "mark_in_progress", ok |-> r.ok]
        /\ UNCHANGED <<orchVars, exec, pipe, fan, clock, lastRead, snapshot, lastRegistered, fleet, gen>>

call_mark_completed(t, result) ==
    LET r == mark_completed(tasks[t], result)
    IN  /\ tasks' = [tasks EXCEPT ![t] = r.task]
        /\ signal' = [task |-> t, method |-> "mark_completed", ok |-> r.ok]
        /\ UNCHANGED <<orchVars, exec, pipe, fan, clock, lastRead, snapshot, lastRegistered, fleet, gen>>

call_mark_failed(t, error) ==
    LET r == mark_failed(tasks[t], error)
    IN  /\ tasks' = [tasks EXCEPT ![t] = r.task]
        /\ signal' = [task |-> t, method |-> "mark_failed", ok |-> r.ok]
        /\ UNCHANGED <<orchVars, exec, pipe, fan, clock, lastRead, snapshot, lastRegistered, fleet, gen>>

NextTask ==
    \/ \E t \in TaskIds, a \in AgentIds : call_mark_in_progress(t, a)
    \/ \E t \in TaskIds, o \in AgentObjs :
          call_mark_completed(t, execute_result(o, tasks[t]))
    \/ \E t \in TaskIds, e \in {"AgentError", "StoreError"} : call_mark_failed(t, e)

SpecTask == Init /\ [][NextTask]_vars

\* ------------------------------------------------------------- execute_tests_parallel
\* AlcallParams(max_concurrent=10, retry_attempts=3, retry_timeout=60.0,
\*              retry_backoff=2.0, throttle_period=0.1)
max_concurrent == 10

MaxFiles == 11

Files == 1..exec.test_files

InFlight == { i \in Files : exec.item[i] = "running" }

\* a slot of alcall's semaphore is free
slot_free_off_by_one == Cardinality(InFlight) <= max_concurrent

slot_free == Cardinality(InFlight) < max_concurrent

\* execute_tests_parallel up to its await of params(test_files, run_single_test)
execute_tests_parallel(n) ==
    /\ exec.pc = "idle"
    /\ exec' = [pc |-> "running", test_files |-> n, started |-> 0,
                item |-> [i \in 1..n |-> "new"]]
    /\ UNCHANGED <<orchVars, tasks, signal, pipe, fan, clock, lastRead, snapshot, lastRegistered, fleet, gen>>

\* alcall starts the coroutine of the next file, in input order, one
\* throttle_period after the one before; the coroutine waits for a slot
alcall_start(i) ==
    /\ exec.pc = "running"
    /\ i = exec.started + 1
    /\ i \in Files
    /\ exec' = [exec EXCEPT !.started = i, !.item[i] = "waiting"]
    /\ UNCHANGED <<orchVars, tasks, signal, pipe, fan, clock, lastRead, snapshot, lastRegistered, fleet, gen>>

\* the longest-waiting coroutine takes a free slot and calls run_single_test
alcall_acquire(i) ==
    /\ exec.pc = "running"
    /\ i \in Files
    /\ exec.item[i] = "waiting"
    /\ \A j \in Files : j < i => exec.item[j] # "waiting"
    /\ slot_free
    /\ exec' = [exec EXCEPT !.item[i] = "running"]
    /\ UNCHANGED <<orchVars, tasks, signal, pipe, fan, clock, lastRead, snapshot, lastRegistered, fleet, gen>>

\* run_single_test returns its dict (it catches every exception of the run,
\* so the attempt never fails for alcall); the slot is released
run_single_test_returns(i) ==
    /\ exec.pc = "running"
    /\ i \in Files
    /\ exec.item[i] = "running"
    /\ exec' = [exec EXCEPT !.item[i] = "done"]
    /\ UNCHANGED <<orchVars, tasks, signal, pipe, fan, clock, lastRead, snapshot, lastRegistered, fleet, gen>>

\* alcall returns the results; they are counted and stored under
\* aqe/test-executor/last_parallel_execution
alcall_done ==
    /\ exec.pc = "running"
    /\ \A i \in Files : exec.item[i] = "done"
    /\ exec' = [exec EXCEPT !.pc = "store"]
    /\ UNCHANGED <<orchVars, tasks, signal, pipe, fan, clock, lastRead, snapshot, lastRegistered, fleet, gen>>

last_parallel_execution_ok ==
    /\ exec.pc = "store"
    /\ memory' = store_result(memory, TestExecutor, <<"last_parallel_execution">>,
                              [total |-> exec.test_files], NoTTL, "agent_results")
    /\ exec' = [exec EXCEPT !.pc = "returned"]
    /\ UNCHANGED <<agents, agentMetrics, metrics, calls, finished, batch, tasks, signal, pipe, fan, clock, lastRead, snapshot, lastRegistered, fleet, gen>>

last_parallel_execution_fails ==
    /\ exec.pc = "store"
    /\ exec' = [exec EXCEPT !.pc = "raised"]
    /\ UNCHANGED <<orchVars, tasks, signal, pipe, fan, clock, lastRead, snapshot, lastRegistered, fleet, gen>>

NextExec ==
    \/ \E n \in 1..MaxFiles : execute_tests_parallel(n)
    \/ \E i \in 1..MaxFiles : alcall_start(i)
    \/ \E i \in 1..MaxFiles : alcall_acquire(i)
    \/ \E i \in 1..MaxFiles : run_single_test_returns(i)
    \/ alcall_done
    \/ last_parallel_execution_ok
    \/ last_parallel_execution_fails

SpecExec == Init /\ [][NextExec]_vars

\* ------------------------------------------------------------- execute_pipeline
MaxStages == 3
MaxWorkflows == 2

Pipelines == SeqsUpTo(AgentIds, MaxStages) \ { << >> }

\* a graph without edges
depends_on_nothing(i) == {}

\* depends_on=nodes[-1:] if nodes else []: the node added just before
depends_on(i) == IF i > 1 THEN {i - 1} ELSE {}

\* builder.add_operation("communicate", depends_on=..., branch=agent.branch)
add_operation(i, agent) ==
    [branch |-> agent, depends_on |-> depends_on(i), status |-> "pending"]

Terminal(node) == node.status \in {"completed", "failed"}

\* self.metrics["workflows_executed"] += 1
\* self.metrics["total_agents_used"] += 1, whatever the pipeline
pipeline_metrics_one_agent(m, pipeline) ==
    [m EXCEPT !.workflows_executed = @ + 1, !.total_agents_used = @ + 1]

\* self.metrics["workflows_executed"] += 1
\* self.metrics["total_agents_used"] += len(pipeline)
pipeline_metrics(m, pipeline) ==
    [m EXCEPT !.workflows_executed = @ + 1,
              !.total_agents_used = @ + Len(pipeline)]

\* a pipeline that runs each stage as it looks its agent up, and raises
\* when it comes to an unregistered id: the stages before the first
\* unregistered id have run
execute_pipeline_stage_by_stage(pipeline) ==
    /\ pipe.pc \in {"idle", "returned", "raised"}
    /\ metrics.workflows_executed < MaxWorkflows
    /\ IF \E i \in 1..Len(pipeline) : get_agent(pipeline[i]) = NoAgent
       THEN pipe' = [pc |-> "raised", pipeline |-> pipeline,
                     nodes |-> [i \in 1..Cardinality(
                                          { i \in 1..Len(pipeline) :
                                              \A j \in 1..i :
                                                get_agent(pipeline[j]) # NoAgent }) |->
                                   [add_operation(i, get_agent(pipeline[i]))
                                       EXCEPT !.status = "completed"]],
                     out |-> "AgentNotFound"]
       ELSE pipe' = [pc |-> "flow", pipeline |-> pipeline,
                     nodes |-> [i \in 1..Len(pipeline) |->
                                   add_operation(i, get_agent(pipeline[i]))],
                     out |-> None]
    /\ UNCHANGED <<orchVars, tasks, signal, exec, fan, clock, lastRead, snapshot, lastRegistered, fleet, gen>>

\* execute_pipeline up to its await of session.flow: the loop looks every
\* agent up and adds its node; an unknown id raises out of the loop
QEOrchestrator_execute_pipeline(pipeline) ==
    /\ pipe.pc \in {"idle", "returned", "raised"}
    /\ metrics.workflows_executed < MaxWorkflows
    /\ IF \E i \in 1..Len(pipeline) : get_agent(pipeline[i]) = NoAgent
       THEN pipe' = [pc |-> "raised", pipeline |-> pipeline, nodes |-> << >>,
                     out |-> "AgentNotFound"]
       ELSE pipe' = [pc |-> "flow", pipeline |-> pipeline,
                     nodes |-> [i \in 1..Len(pipeline) |->
                                   add_operation(i, get_agent(pipeline[i]))],
                     out |-> None]
    /\ UNCHANGED <<orchVars, tasks, signal, exec, fan, clock, lastRead, snapshot, lastRegistered, gen>>

\* a caller awaits orchestrator.execute_pipeline directly
execute_pipeline(pipeline) ==
    /\ QEOrchestrator_execute_pipeline(pipeline)
    /\ UNCHANGED fleet

\* session.flow starts an operation once the operations it depends on have
\* ended
flow_start(i) ==
    /\ pipe.pc = "flow"
    /\ i \in 1..Len(pipe.nodes)
    /\ pipe.nodes[i].status = "pending"
    /\ \A j \in pipe.nodes[i].depends_on : Terminal(pipe.nodes[j])
    /\ pipe' = [pipe EXCEPT !.nodes[i].status = "running"]
    /\ UNCHANGED <<orchVars, tasks, signal, exec, fan, clock, lastRead, snapshot, lastRegistered, fleet, gen>>

\* the communicate operation of node i returns
operation_completes(i) ==
    /\ pipe.pc = "flow"
    /\ i \in 1..Len(pipe.nodes)
    /\ pipe.nodes[i].status = "running"
    /\ pipe' = [pipe EXCEPT !.nodes[i].status = "completed"]
    /\ UNCHANGED <<orchVars, tasks, signal, exec, fan, clock, lastRead, snapshot, lastRegistered, fleet, gen>>

\* the communicate operation of node i raises: the operation records the
\* error as its outcome and ends; execute_pipeline has no handling of its
\* own, and the flow goes on with the operations that waited for node i
operation_fails(i) ==
    /\ pipe.pc = "flow"
    /\ i \in 1..Len(pipe.nodes)
    /\ pipe.nodes[i].status = "running"
    /\ pipe' = [pipe EXCEPT !.nodes[i].status = "failed"]
    /\ UNCHANGED <<orchVars, tasks, signal, exec, fan, clock, lastRead, snapshot, lastRegistered, fleet, gen>>

\* session.flow returns the results of the operations; execute_pipeline
\* counts the workflow and returns them
flow_returns ==
    /\ pipe.pc = "flow"
    /\ \A i \in 1..Len(pipe.nodes) : Terminal(pipe.nodes[i])
    /\ pipe' = [pipe EXCEPT !.pc = "returned"]
    /\ metrics' = pipeline_metrics(metrics, pipe.pipeline)
    /\ UNCHANGED <<agents, agentMetrics, memory, calls, finished, batch, tasks,
                   signal, exec, fan, clock, lastRead, snapshot, lastRegistered, fleet, gen>>

\* the agents registered are instances of the agent classes, with the
\* operate of the base class
NextPipeline ==
    \/ \E o \in {a \in AgentObjs : a.operate = "BaseQEAgent"} : register_agent(o)
    \/ \E pl \in Pipelines : execute_pipeline(pl)
    \/ \E i \in 1..MaxStages : flow_start(i)
    \/ \E i \in 1..MaxStages : operation_completes(i)
    \/ \E i \in 1..MaxStages : operation_fails(i)
    \/ flow_returns

SpecPipeline == Init /\ [][NextPipeline]_vars

\* ------------------------------------------------------------- the batch in time
\* execute_tests_parallel on the clock of its event loop, in milliseconds.
\* run_single_test is a coroutine without an await: its subprocess.run
\* blocks the loop, so a run is one step during which the clock advances and
\* nothing else happens. The other steps take no time; the loop sleeps only
\* when no coroutine is ready.
MaxTimedFiles == 3

retry_attempts == 3
retry_backoff == 2
throttle_period == 100
subprocess_timeout == 60000

\* how a test run can go, and how long the runs that end by themselves take
RunKinds == {"pass", "fail", "error", "hang"}
RunTimes == {0, 50, 250}

NoOutcome == [raised |-> FALSE, passed |-> FALSE, timeout |-> FALSE, ran |-> FALSE]

\* run_single_test: the dict it returns. Every branch returns: a non-zero
\* exit code, subprocess.TimeoutExpired and any other exception are turned
\* into a dict with passed = False, none is raised to alcall.
run_single_test(kind) ==
    [raised |-> FALSE, passed |-> (kind = "pass"), timeout |-> (kind = "hang"),
     ran |-> TRUE]

\* the time the blocking subprocess.run(..., timeout=60) takes
run_time(kind, d) == IF kind = "hang" THEN subprocess_timeout ELSE d

\* alcall makes another attempt when the call raised and retries are left
\* (retry_timeout=60.0 cannot cut a run off: the run never yields to the
\* loop, and its own subprocess timeout ends it)
retry(r, attempts) == r.raised /\ attempts <= retry_attempts

\* the sleep of alcall before it repeats a call that raised: its initial
\* delay, which AlcallParams is not given here, times a power of
\* retry_backoff
retry_delay(attempts) == 0 * retry_backoff ^ (attempts - 1)

\* no pause between the starts
no_throttle(now) == now

\* alcall sleeps throttle_period after it has started an item
next_start(now) == now + throttle_period

Ready == { i \in Files : exec.item[i] \in {"waiting", "running"} }

\* execute_tests_parallel up to its await of params(test_files, run_single_test)
execute_tests_parallel_timed(n) ==
    /\ exec.pc = "idle"
    /\ exec' = [pc |-> "running", test_files |-> n, started |-> 0,
                item |-> [i \in 1..n |-> "new"],
                now |-> 0, due |-> 0,
                start_at |-> [i \in 1..n |-> -1],
                attempts |-> [i \in 1..n |-> 0],
                ended_at |-> [i \in 1..n |-> -1],
                retry_due |-> [i \in 1..n |-> -1],
                results |-> [i \in 1..n |-> NoOutcome]]
    /\ UNCHANGED <<orchVars, tasks, signal, pipe, fan, clock, lastRead, snapshot, lastRegistered, fleet, gen>>

\* alcall starts the coroutine of the next file once the throttle sleep
\* after the start before is over
start_soon(i) ==
    /\ exec.pc = "running"
    /\ i = exec.started + 1
    /\ i \in Files
    /\ exec.now >= exec.due
    /\ exec' = [exec EXCEPT !.started = i, !.item[i] = "waiting",
                            !.due = next_start(exec.now)]
    /\ UNCHANGED <<orchVars, tasks, signal, pipe, fan, clock, lastRead, snapshot, lastRegistered, fleet, gen>>

\* no coroutine is ready: the loop sleeps until alcall's throttle sleep ends
throttle_sleep ==
    /\ exec.pc = "running"
    /\ exec.started < exec.test_files
    /\ Ready = {}
    /\ exec.now < exec.due
    /\ exec' = [exec EXCEPT !.now = exec.due]
    /\ UNCHANGED <<orchVars, tasks, signal, pipe, fan, clock, lastRead, snapshot, lastRegistered, fleet, gen>>

\* the coroutine of file i, holding its slot, makes an attempt: the run
\* blocks the loop for its whole time, then alcall takes the dict as the
\* item's result or makes another attempt
run_attempt(i, kind, d) ==
    LET r == run_single_test(kind)
        a == exec.attempts[i] + 1
    IN  /\ exec.pc = "running"
        /\ i \in Files
        /\ exec.item[i] = "running"
        /\ exec' = [exec EXCEPT
                       !.now = @ + run_time(kind, d),
                       !.attempts[i] = a,
                       !.start_at[i] = IF @ < 0 THEN exec.now ELSE @,
                       !.results[i] = r,
                       !.ended_at[i] = exec.now + run_time(kind, d),
                       !.retry_due[i] = IF retry(r, a)
                                        THEN exec.now + run_time(kind, d)
                                             + retry_delay(a)
                                        ELSE -1,
                       !.item[i] = IF retry(r, a) THEN "running" ELSE "done"]
        /\ UNCHANGED <<orchVars, tasks, signal, pipe, fan, clock, lastRead, snapshot, lastRegistered, fleet, gen>>

NextTimed ==
    \/ \E n \in 1..MaxTimedFiles : execute_tests_parallel_timed(n)
    \/ \E i \in 1..MaxTimedFiles : start_soon(i)
    \/ \E i \in 1..MaxTimedFiles : alcall_acquire(i)
    \/ \E i \in 1..MaxTimedFiles, kind \in RunKinds, d \in RunTimes :
          run_attempt(i, kind, d)
    \/ throttle_sleep
    \/ alcall_done
    \/ last_parallel_execution_ok
    \/ last_parallel_execution_fails

SpecTimed == Init /\ [][NextTimed]_vars

\* ------------------------------------------------------------- execute_fan_out_fan_in
\* execute_fan_out_fan_in up to its await of coordinator.operate; registered
\* notes whether the registry held the coordinator's id at the call. The
\* call coordinator.operate(instruct=..., field_models=...) raises TypeError
\* at once on an object whose operate is BaseQEAgent's, which has no such
\* keywords; an object whose operate was replaced by one that takes them is
\* awaited.
QEOrchestrator_execute_fan_out_fan_in(coordinator_agent, worker_agents) ==
    LET coordinator == get_agent(coordinator_agent)
        call == [IdleFan EXCEPT !.coordinator_agent = coordinator_agent,
                                !.worker_agents = worker_agents,
                                !.registered = (agents[coordinator_agent] # NoAgent)]
    IN  /\ fan.pc = "idle"
        /\ batch.pc = "idle"
        /\ IF coordinator = NoAgent
           THEN fan' = [call EXCEPT !.pc = "raised", !.out = "CoordinatorNotFound"]
           ELSE IF coordinator.operate = "BaseQEAgent"
           THEN fan' = [call EXCEPT !.pc = "raised", !.coordinator = coordinator,
                                    !.out = "TypeError"]
           ELSE fan' = [call EXCEPT !.pc = "decompose", !.coordinator = coordinator]
        /\ UNCHANGED <<orchVars, tasks, signal, exec, pipe, clock, lastRead, snapshot, lastRegistered, gen>>

\* a caller awaits orchestrator.execute_fan_out_fan_in directly
execute_fan_out_fan_in(coordinator_agent, worker_agents) ==
    /\ QEOrchestrator_execute_fan_out_fan_in(coordinator_agent, worker_agents)
    /\ UNCHANGED fleet

\* coordinator.operate returns the decomposition; its subtasks and the worker
\* ids go to execute_parallel, which runs up to its await of alcall
decomposition_returns(subtasks) ==
    /\ fan.pc = "decompose"
    /\ fan' = [fan EXCEPT !.pc = "workers", !.subtasks = subtasks]
    /\ batch' = [batch EXCEPT !.pc = "running", !.agent_ids = fan.worker_agents,
                              !.tasks = subtasks]
    /\ UNCHANGED <<agents, agentMetrics, metrics, memory, tasks, calls, finished,
                   signal, exec, pipe, clock, lastRead, snapshot, lastRegistered, fleet, gen>>

\* coordinator.operate raises (or its answer has no subtasks to read): the
\* exception leaves execute_fan_out_fan_in
decomposition_raises ==
    /\ fan.pc = "decompose"
    /\ fan' = [fan EXCEPT !.pc = "raised", !.out = "DecompositionError"]
    /\ UNCHANGED <<orchVars, tasks, signal, exec, pipe, clock, lastRead, snapshot, lastRegistered, fleet, gen>>

\* a synthesis that does not wait for execute_parallel
fan_in_early ==
    /\ fan.pc = "workers"
    /\ batch.pc \in {"running", "returned"}
    /\ fan' = [fan EXCEPT !.pc = "synthesize", !.requests = @ + 1]
    /\ UNCHANGED <<orchVars, tasks, signal, exec, pipe, clock, lastRead, snapshot, lastRegistered, fleet, gen>>

\* execute_parallel returned worker_results: the coordinator is asked for
\* the synthesis
fan_in ==
    /\ fan.pc = "workers"
    /\ batch.pc = "returned"
    /\ fan' = [fan EXCEPT !.pc = "synthesize", !.requests = @ + 1]
    /\ UNCHANGED <<orchVars, tasks, signal, exec, pipe, clock, lastRead, snapshot, lastRegistered, fleet, gen>>

\* execute_parallel raised: the exception leaves execute_fan_out_fan_in
fan_out_raises ==
    /\ fan.pc = "workers"
    /\ batch.pc = "raised"
    /\ fan' = [fan EXCEPT !.pc = "raised", !.out = "WorkerError"]
    /\ UNCHANGED <<orchVars, tasks, signal, exec, pipe, clock, lastRead, snapshot, lastRegistered, fleet, gen>>

\* what coordinator.communicate may answer
Answers == {"report", "summary"}

\* coordinator.communicate returns: the dict of decomposition,
\* worker_results and synthesis is returned
synthesis_returns(answer) ==
    /\ fan.pc = "synthesize"
    /\ fan' = [fan EXCEPT !.pc = "returned", !.synthesis = answer,
                          !.ret = [decomposition |-> fan.subtasks,
                                   worker_results |-> batch.results,
                                   synthesis |-> answer]]
    /\ UNCHANGED <<orchVars, tasks, signal, exec, pipe, clock, lastRead, snapshot, lastRegistered, fleet, gen>>

\* coordinator.communicate raises
synthesis_raises ==
    /\ fan.pc = "synthesize"
    /\ fan' = [fan EXCEPT !.pc = "raised", !.out = "SynthesisError"]
    /\ UNCHANGED <<orchVars, tasks, signal, exec, pipe, clock, lastRead, snapshot, lastRegistered, fleet, gen>>

\* the coordinator and the workers registered here are agents whose
\* execute leaves the store alone, and the steps of execute_agent are theirs
NextFan ==
    \/ \E o \in AgentObjs \ TestExecutorAgents : register_agent(o)
    \/ \E a \in AgentIds, ids \in SeqsUpTo(AgentIds, MaxCalls) :
          execute_fan_out_fan_in(a, ids)
    \/ \E st \in ContextLists(MaxTasks) : decomposition_returns(st)
    \/ decomposition_raises
    \/ \E i \in CallIds : run_agent(i)
    \/ \E c \in CallIds : execute_returns(c)
    \/ \E c \in CallIds : execute_raises(c)
    \/ \E c \in CallIds : post_store_ok(c)
    \/ \E c \in CallIds : post_store_fails(c)
    \/ \E c \in CallIds : learn_store_ok(c)
    \/ \E c \in CallIds : learn_store_fails(c)
    \/ \E c \in CallIds : err_store_ok(c)
    \/ \E c \in CallIds : err_store_fails(c)
    \/ alcall_returns
    \/ alcall_raises
    \/ fan_in
    \/ fan_out_raises
    \/ \E answer \in Answers : synthesis_returns(answer)
    \/ synthesis_raises

SpecFan == Init /\ [][NextFan]_vars

\* ------------------------------------------------------------- the store in time
MaxClock == 2

StoreKeys == { <<"k">>, <<"j">> }
StoreValues == { "v1", "v2" }
TTLs == { NoTTL, 1 }

\* the patterns ".*" and ".*k.*"
Patterns == { <<".", "*">>, <<".", "*", "k", ".", "*">> }

\* QEFleet.export_state, the dict it returned as a caller reads it now:
\* "memory" and "router_stats" are what the two awaits returned,
\* "orchestrator_metrics" is the orchestrator's metrics dict itself, not a
\* copy, so it shows every later change of the metrics
export_state == [memory |-> snapshot.memory,
                 router_stats |-> snapshot.router_stats,
                 orchestrator_metrics |-> metrics]

\* QEFleet.import_state: memory.import_state(state.get("memory", {}))
import_state(state, policy) ==
    memory_import_state(memory,
                        IF "memory" \in DOMAIN state THEN state.memory
                        ELSE << >>,
                        clock, policy)

\* a second passes
tick ==
    /\ clock < MaxClock
    /\ clock' = clock + 1
    /\ UNCHANGED <<orchVars, tasks, signal, exec, pipe, fan, lastRead, snapshot, lastRegistered, fleet, gen>>

call_store(key, value, ttl) ==
    /\ memory' = store(memory, key, value, ttl, "agent_results")
    /\ lastRead' = [op |-> "store", arg |-> key, found |-> <<value>>,
                    raised |-> FALSE, at |-> clock]
    /\ UNCHANGED <<agents, agentMetrics, metrics, calls, finished, batch, tasks,
                   signal, exec, pipe, fan, clock, snapshot, lastRegistered, fleet, gen>>

call_retrieve(key) ==
    /\ lastRead' = [op |-> "retrieve", arg |-> key,
                    found |-> retrieve(memory, key, clock),
                    raised |-> FALSE, at |-> clock]
    /\ UNCHANGED <<orchVars, tasks, signal, exec, pipe, fan, clock, snapshot, lastRegistered, fleet, gen>>

call_search(pattern) ==
    /\ lastRead' = [op |-> "search", arg |-> pattern,
                    found |-> search(memory, pattern, clock),
                    raised |-> FALSE, at |-> clock]
    /\ UNCHANGED <<orchVars, tasks, signal, exec, pipe, fan, clock, snapshot, lastRegistered, fleet, gen>>

\* a caller awaits fleet.export_state(): the coroutine is suspended in
\* memory.export_state()
call_export_state ==
    /\ snapshot.pc \in {"idle", "returned"}
    /\ snapshot' = [NoSnapshot EXCEPT !.pc = "memory"]
    /\ UNCHANGED <<orchVars, tasks, signal, exec, pipe, fan, clock, lastRead, lastRegistered, fleet, gen>>

\* memory.export_state() returns the state of the store; the coroutine is
\* suspended in router.get_routing_stats(). before and source keep what
\* search(".*") returns and what the store holds at this moment.
memory_export_returns(ttls) ==
    /\ snapshot.pc = "memory"
    /\ snapshot' = [snapshot EXCEPT !.pc = "router",
                                    !.memory =
                                        memory_export_state(memory, clock, ttls),
                                    !.before = search(memory, <<".", "*">>, clock),
                                    !.source = memory]
    /\ UNCHANGED <<orchVars, tasks, signal, exec, pipe, fan, clock, lastRead, lastRegistered, fleet, gen>>

\* router.get_routing_stats() returns stats (the router is no part of the
\* sources; its statistics are opaque here); the dict is built with
\* self.orchestrator.metrics and returned
routing_stats_return(stats) ==
    /\ snapshot.pc = "router"
    /\ snapshot' = [snapshot EXCEPT !.pc = "returned", !.router_stats = stats,
                                    !.taken = TRUE]
    /\ lastRead' = [op |-> "export_state", arg |-> None, found |-> << >>,
                    raised |-> FALSE, at |-> clock]
    /\ UNCHANGED <<orchVars, tasks, signal, exec, pipe, fan, clock, lastRegistered, fleet, gen>>

\* the states a caller hands to import_state: the last exported one, or
\* one without a "memory" entry
ImportedStates ==
    (IF snapshot.taken THEN {export_state} ELSE {})
        \cup { [orchestrator_metrics |-> metrics] }

\* fleet.import_state(state) is awaited and returns; policy is the policy
\* of the store's import
QEFleet_import_state(state, policy) ==
    /\ memory' = import_state(state, policy)
    /\ UNCHANGED <<agents, agentMetrics, metrics, calls, finished, batch, tasks,
                   signal, exec, pipe, fan, clock, snapshot, lastRegistered, fleet, gen>>

\* a caller awaits fleet.import_state(state) and then search(".*"); arg
\* keeps the entries of the state, the policy, and whether the store held at
\* the import what it held at the export
call_import_state(state, policy) ==
    /\ QEFleet_import_state(state, policy)
    /\ lastRead' = [op |-> "import_state",
                    arg |-> [entries |-> DOMAIN state, policy |-> policy,
                             unchanged |-> memory = snapshot.source],
                    found |-> search(memory', <<".", "*">>, clock),
                    raised |-> FALSE, at |-> clock]

\* callers store and read as time passes
NextStore ==
    \/ tick
    \/ \E k \in StoreKeys, v \in StoreValues, ttl \in TTLs : call_store(k, v, ttl)
    \/ \E k \in StoreKeys : call_retrieve(k)
    \/ \E pt \in Patterns : call_search(pt)

SpecStore == Init /\ [][NextStore]_vars

\* callers store, export and import as time passes, with either form of
\* the exported ttl and either policy of the import
NextExport ==
    \/ tick
    \/ \E k \in StoreKeys, v \in StoreValues, ttl \in TTLs : call_store(k, v, ttl)
    \/ call_export_state
    \/ \E ttls \in {"absolute", "relative"} : memory_export_returns(ttls)
    \/ routing_stats_return("routing_stats")
    \/ \E state \in ImportedStates, policy \in {"replace", "merge"} :
          call_import_state(state, policy)

SpecExport == Init /\ [][NextExport]_vars

\* ------------------------------------------------------------- learned patterns
MaxPatterns == 3

PatternNames == {"n1", "n2"}
CoverageTargets == {80}
CoverageEstimates == {50, 90}

\* the characters of an agent_id, as an f-string puts them into a key or
\* into a regular expression
chars(agent_id) ==
    IF agent_id = "ax" THEN <<"a", "x">>
    ELSE IF agent_id = "a." THEN <<"a", ".">>
    ELSE <<agent_id>>

\* f"aqe/patterns/{self.agent_id}/{pattern_name}"
pattern_key(agent_id, pattern_name) ==
    <<"aqe/patterns/">> \o chars(agent_id) \o <<"/", pattern_name>>

\* f"aqe/patterns/{self.agent_id}/.*"
patterns_regex(agent_id) ==
    <<"aqe/patterns/">> \o chars(agent_id) \o <<"/", ".", "*">>

\* the pattern_data of a caller; learned_by records who stored it
pattern_data(agent, pattern) == [learned_by |-> agent.agent_id, pattern |-> pattern]

\* store_learned_pattern: memory.store(key, data, partition="patterns"),
\* then patterns_learned += 1
store_learned_pattern(agent, pattern_name, data) ==
    /\ agentMetrics[agent].patterns_learned < MaxPatterns
    /\ memory' = store(memory, pattern_key(agent.agent_id, pattern_name), data,
                       NoTTL, "patterns")
    /\ agentMetrics' = [agentMetrics EXCEPT ![agent].patterns_learned = @ + 1]
    /\ lastRead' = [op |-> "store_learned_pattern", arg |-> agent.agent_id,
                    found |-> << >>, raised |-> FALSE, at |-> clock]
    /\ UNCHANGED <<agents, metrics, tasks, calls, finished, batch, signal, exec,
                   pipe, fan, clock, snapshot, lastRegistered, fleet, gen>>

\* store_learned_pattern when memory.store raises: nothing is counted
store_learned_pattern_fails(agent) ==
    /\ lastRead' = [op |-> "store_learned_pattern", arg |-> agent.agent_id,
                    found |-> << >>, raised |-> TRUE, at |-> clock]
    /\ UNCHANGED <<orchVars, tasks, signal, exec, pipe, fan, clock, snapshot,
                   lastRegistered, fleet, gen>>

\* get_learned_patterns: search_memory(f"aqe/patterns/{self.agent_id}/.*")
get_learned_patterns(agent) ==
    /\ lastRead' = [op |-> "get_learned_patterns", arg |-> agent.agent_id,
                    found |-> search(memory, patterns_regex(agent.agent_id), clock),
                    raised |-> FALSE, at |-> clock]
    /\ UNCHANGED <<orchVars, tasks, signal, exec, pipe, fan, clock, snapshot,
                   lastRegistered, fleet, gen>>

\* self.safe_operate: no class of the agent defines the attribute
has_safe_operate == FALSE

\* TestGeneratorAgent.execute: get_learned_patterns, then
\* self.safe_operate(...), whose result has coverage_estimate; the pattern
\* is stored if the estimate reaches the target. The attribute lookup
\* raises AttributeError before anything is generated.
TestGeneratorAgent_execute(agent, coverage_target, coverage_estimate) ==
    LET learns == has_safe_operate /\ coverage_estimate >= coverage_target
    IN  /\ learns => agentMetrics[agent].patterns_learned < MaxPatterns
        /\ IF learns
           THEN /\ memory' = store(memory,
                                   pattern_key(agent.agent_id, "pytest_unit_pattern"),
                                   pattern_data(agent, "high_coverage_achieved"),
                                   NoTTL, "patterns")
                /\ agentMetrics' =
                      [agentMetrics EXCEPT ![agent].patterns_learned = @ + 1]
           ELSE UNCHANGED <<memory, agentMetrics>>
        /\ lastRead' = [op |-> "execute",
                        arg |-> [agent_id |-> agent.agent_id,
                                 coverage_target |-> coverage_target,
                                 coverage_estimate |-> coverage_estimate],
                        found |-> << >>, raised |-> ~has_safe_operate, at |-> clock]
        /\ UNCHANGED <<agents, metrics, tasks, calls, finished, batch, signal,
                       exec, pipe, fan, clock, snapshot, lastRegistered, fleet, gen>>

\* ---- TestGeneratorAgent.execute_with_reasoning, generate_tests_streaming
\* the traces branch.ReAct may answer with: the numbers of EdgeCase and
\* TestScenario objects among the intermediate results
Traces == { [edge_cases |-> 0, scenarios |-> 0],
            [edge_cases |-> 4, scenarios |-> 5] }

\* quality_improvement = (edge_case_improvement + scenario_improvement) / 2
\* with baselines 2 and 3, kept exact as a number of sixths of a percent:
\* ((e - 2) / 2 * 100 + (s - 3) / 3 * 100) / 2 * 6
quality_improvement(edge_cases, scenarios) ==
    (edge_cases - 2) * 150 + (scenarios - 3) * 100

\* a caller awaits agent.execute_with_reasoning(task): ValueError when the
\* context has neither code nor file_path; without code the file is opened
\* and read, and the exception of open() on a path that cannot be read is
\* logged and raised again; else up to the await of get_learned_patterns.
\* file_path is None, a file that is read ("x.py") or a path open() fails on.
execute_with_reasoning(agent, t, has_code, file_path) ==
    /\ gen.pc \in {"idle", "returned", "raised"}
    /\ gen' = IF ~has_code /\ file_path = None
              THEN [IdleGen EXCEPT !.pc = "raised",
                                   !.method = "execute_with_reasoning",
                                   !.agent = agent, !.task = t,
                                   !.out = "ValueError"]
              ELSE IF ~has_code /\ file_path = "/nonexistent/x.py"
              THEN [IdleGen EXCEPT !.pc = "raised",
                                   !.method = "execute_with_reasoning",
                                   !.agent = agent, !.task = t,
                                   !.out = "FileNotFoundError"]
              ELSE [IdleGen EXCEPT !.pc = "get_learned_patterns",
                                   !.method = "execute_with_reasoning",
                                   !.agent = agent, !.task = t]
    /\ UNCHANGED <<orchVars, tasks, signal, exec, pipe, fan, clock, lastRead,
                   snapshot, lastRegistered, fleet>>

\* a caller iterates agent.generate_tests_streaming(task): up to the await
\* of get_learned_patterns
generate_tests_streaming(agent, t, coverage_target) ==
    /\ gen.pc \in {"idle", "returned", "raised"}
    /\ gen' = [IdleGen EXCEPT !.pc = "get_learned_patterns",
                              !.method = "generate_tests_streaming",
                              !.agent = agent, !.task = t,
                              !.coverage_target = coverage_target]
    /\ UNCHANGED <<orchVars, tasks, signal, exec, pipe, fan, clock, lastRead,
                   snapshot, lastRegistered, fleet>>

\* get_learned_patterns returns: execute_with_reasoning goes on to
\* branch.ReAct, generate_tests_streaming to model.stream
gen_patterns_read ==
    /\ gen.pc = "get_learned_patterns"
    /\ gen' = [gen EXCEPT !.pc = IF gen.method = "execute_with_reasoning"
                                 THEN "ReAct" ELSE "stream"]
    /\ lastRead' = [op |-> "get_learned_patterns", arg |-> gen.agent.agent_id,
                    found |-> search(memory, patterns_regex(gen.agent.agent_id),
                                     clock),
                    raised |-> FALSE, at |-> clock]
    /\ UNCHANGED <<orchVars, tasks, signal, exec, pipe, fan, clock, snapshot,
                   lastRegistered, fleet>>

\* branch.ReAct returns with a trace that holds so many edge cases and
\* scenarios; the coroutine awaits store_result(f"reasoning/{task_id}")
ReAct_returns(edge_cases, scenarios) ==
    /\ gen.pc = "ReAct"
    /\ gen' = [gen EXCEPT !.pc = "store_reasoning",
                          !.quality_improvement =
                              quality_improvement(edge_cases, scenarios)]
    /\ UNCHANGED <<orchVars, tasks, signal, exec, pipe, fan, clock, lastRead,
                   snapshot, lastRegistered, fleet>>

\* branch.ReAct raises: "except Exception" awaits self.execute(task), which
\* runs up to its await of get_learned_patterns (pc "fallback")
ReAct_raises ==
    /\ gen.pc = "ReAct"
    /\ gen' = [gen EXCEPT !.pc = "fallback"]
    /\ UNCHANGED <<orchVars, tasks, signal, exec, pipe, fan, clock, lastRead,
                   snapshot, lastRegistered, fleet>>

\* the store of the reasoning succeeds (ttl 86400). With
\* quality_improvement > 20 the pattern is stored next; otherwise the return statement
\* is reached, which reads return_analysis, a name that is not defined:
\* the NameError is caught by "except Exception"
reasoning_store_ok ==
    /\ gen.pc = "store_reasoning"
    /\ memory' = store_result(memory, gen.agent, <<"reasoning", gen.task>>,
                              [quality_improvement |-> gen.quality_improvement],
                              ResultTTL, "agent_results")
    /\ gen' = IF gen.quality_improvement > 20 * 6
              THEN [gen EXCEPT !.pc = "store_pattern"]
              ELSE [gen EXCEPT !.pc = "fallback"]
    /\ UNCHANGED <<agents, agentMetrics, metrics, calls, finished, batch, tasks,
                   signal, exec, pipe, fan, clock, lastRead, snapshot,
                   lastRegistered, fleet>>

\* the store of the reasoning raises
reasoning_store_fails ==
    /\ gen.pc = "store_reasoning"
    /\ gen' = [gen EXCEPT !.pc = "fallback"]
    /\ UNCHANGED <<orchVars, tasks, signal, exec, pipe, fan, clock, lastRead,
                   snapshot, lastRegistered, fleet>>

\* model.stream has ended and the tests average avg_coverage: the pattern
\* is stored if the average reaches the target, else "complete" is yielded
stream_ends(avg_coverage) ==
    /\ gen.pc = "stream"
    /\ gen' = IF avg_coverage >= gen.coverage_target
              THEN [gen EXCEPT !.pc = "store_pattern"]
              ELSE [gen EXCEPT !.pc = "returned", !.out = "complete"]
    /\ UNCHANGED <<orchVars, tasks, signal, exec, pipe, fan, clock, lastRead,
                   snapshot, lastRegistered, fleet>>

\* model.stream raises: an "error" event is yielded and the generator
\* returns
stream_raises ==
    /\ gen.pc = "stream"
    /\ gen' = [gen EXCEPT !.pc = "returned", !.out = "error"]
    /\ UNCHANGED <<orchVars, tasks, signal, exec, pipe, fan, clock, lastRead,
                   snapshot, lastRegistered, fleet>>

\* f"{framework}_{test_type}_react_pattern" and ..._streaming_pattern with
\* the defaults of framework and test_type
gen_pattern_name ==
    IF gen.method = "execute_with_reasoning" THEN "pytest_unit_react_pattern"
    ELSE "pytest_unit_streaming_pattern"

\* store_learned_pattern of the running method succeeds: the pattern is
\* stored and counted. generate_tests_streaming yields "complete";
\* execute_with_reasoning goes on to its return statement (NameError).
gen_pattern_store_ok ==
    /\ gen.pc = "store_pattern"
    /\ agentMetrics[gen.agent].patterns_learned < MaxPatterns
    /\ memory' = store(memory, pattern_key(gen.agent.agent_id, gen_pattern_name),
                       pattern_data(gen.agent, gen_pattern_name),
                       NoTTL, "patterns")
    /\ agentMetrics' =
          [agentMetrics EXCEPT ![gen.agent].patterns_learned = @ + 1]
    /\ gen' = IF gen.method = "execute_with_reasoning"
              THEN [gen EXCEPT !.pc = "fallback"]
              ELSE [gen EXCEPT !.pc = "returned", !.out = "complete"]
    /\ UNCHANGED <<agents, metrics, calls, finished, batch, tasks, signal, exec,
                   pipe, fan, clock, lastRead, snapshot, lastRegistered, fleet>>

\* store_learned_pattern raises: caught in execute_with_reasoning, not in
\* generate_tests_streaming, whose try block has ended
gen_pattern_store_fails ==
    /\ gen.pc = "store_pattern"
    /\ gen' = IF gen.method = "execute_with_reasoning"
              THEN [gen EXCEPT !.pc = "fallback"]
              ELSE [gen EXCEPT !.pc = "raised", !.out = "StoreError"]
    /\ UNCHANGED <<orchVars, tasks, signal, exec, pipe, fan, clock, lastRead,
                   snapshot, lastRegistered, fleet>>

\* the execute the method fell back to: get_learned_patterns returns, then
\* self.safe_operate raises AttributeError, which leaves
\* execute_with_reasoning
fallback_execute_raises ==
    /\ gen.pc = "fallback"
    /\ ~has_safe_operate
    /\ gen' = [gen EXCEPT !.pc = "raised", !.out = "AttributeError"]
    /\ lastRead' = [op |-> "get_learned_patterns", arg |-> gen.agent.agent_id,
                    found |-> search(memory, patterns_regex(gen.agent.agent_id),
                                     clock),
                    raised |-> FALSE, at |-> clock]
    /\ UNCHANGED <<orchVars, tasks, signal, exec, pipe, fan, clock, snapshot,
                   lastRegistered, fleet>>

NextPatterns ==
    \/ \E has_code \in BOOLEAN, file_path \in {None, "x.py", "/nonexistent/x.py"} :
          execute_with_reasoning([agent_id |-> "ax", enable_learning |-> TRUE,
                                  operate |-> "BaseQEAgent"],
                                 1, has_code, file_path)
    \/ \E ct \in CoverageTargets :
          generate_tests_streaming([agent_id |-> "ax", enable_learning |-> TRUE,
                                    operate |-> "BaseQEAgent"],
                                   1, ct)
    \/ gen_patterns_read
    \/ \E tr \in Traces : ReAct_returns(tr.edge_cases, tr.scenarios)
    \/ ReAct_raises
    \/ reasoning_store_ok
    \/ reasoning_store_fails
    \/ \E ce \in CoverageEstimates : stream_ends(ce)
    \/ stream_raises
    \/ gen_pattern_store_ok
    \/ gen_pattern_store_fails
    \/ fallback_execute_raises
    \/ \E o \in Learners, n \in PatternNames :
          store_learned_pattern(o, n, pattern_data(o, n))
    \/ \E o \in Learners : store_learned_pattern_fails(o)
    \/ \E o \in Learners : get_learned_patterns(o)
    \/ \E o \in Learners, ct \in CoverageTargets, ce \in CoverageEstimates :
          TestGeneratorAgent_execute(o, ct, ce)

SpecPatterns == Init /\ [][NextPatterns]_vars

\* ------------------------------------------------------------- QEFleet
ExecuteMethods == {"execute", "execute_pipeline", "execute_parallel",
                   "execute_fan_out_fan_in", "execute_workflow"}

\* the agent the callers of the fleet register and dispatch to is
\* TestExecutor, a TestExecutorAgent that does not learn

\* initialize: returns at once when the fleet is initialized, else sets
\* self.initialized = True (it has no await before that)
initialize(f) ==
    IF f.initialized THEN f
    ELSE [f EXCEPT !.initialized = TRUE, !.inits = @ + 1]

\* a caller awaits fleet.initialize()
fleet_initialize ==
    /\ fleet' = [initialize(fleet) EXCEPT !.called = TRUE]
    /\ UNCHANGED <<orchVars, tasks, signal, exec, pipe, fan, clock, lastRead,
                   snapshot, lastRegistered, gen>>

\* a caller awaits fleet.execute*(...): "if not self.initialized: await
\* self.initialize()" (initialize has no await), then the orchestrator's
\* method up to its first await or its raise. fleet.execute runs as the last
\* coroutine on the last QETask object, apart from the items of a batch.
\* execute_workflow hands the caller's graph to session.flow, which leaves
\* the orchestrator as it is.
fleet_execute(method) ==
    /\ fleet' = [initialize(fleet) EXCEPT !.called = TRUE]
    /\ \/ /\ method = "execute"
          /\ QEOrchestrator_execute_agent(MaxCalls, TestExecutor.agent_id,
                                          MaxTasks)
       \/ /\ method = "execute_pipeline"
          /\ QEOrchestrator_execute_pipeline(<<TestExecutor.agent_id>>)
       \/ /\ method = "execute_parallel"
          /\ QEOrchestrator_execute_parallel(<<TestExecutor.agent_id>>, <<"k1">>)
       \/ /\ method = "execute_fan_out_fan_in"
          /\ QEOrchestrator_execute_fan_out_fan_in(TestExecutor.agent_id,
                                                   <<TestExecutor.agent_id>>)
       \/ /\ method = "execute_workflow"
          /\ UNCHANGED <<orchVars, tasks, signal, exec, pipe, fan, clock,
                         lastRead, snapshot, lastRegistered, gen>>

\* a get_status that brings the fleet up before it asks the orchestrator
get_status_initializing(f) ==
    [initialize(f) EXCEPT
        !.status = None, !.pc = "routing_stats", !.total_agents = 0,
        !.agent_statuses = { a \in AgentIds : agents[a] # NoAgent }]

\* get_status: {"status": "not_initialized"} for a fleet that is not
\* initialized, else the orchestrator's get_fleet_status() up to its first
\* suspension: agent_statuses has an entry for each registered agent, its
\* get_metrics() (a coroutine without an await, so the loop does not
\* suspend), and the coroutine waits for router.get_routing_stats()
get_status(f) ==
    IF ~f.initialized
    THEN [f EXCEPT !.status = "not_initialized"]
    ELSE [f EXCEPT
             !.status = None, !.pc = "routing_stats", !.total_agents = 0,
             !.agent_statuses = { a \in AgentIds : agents[a] # NoAgent }]

\* a caller awaits fleet.get_status()
fleet_get_status ==
    /\ fleet.pc = "idle"
    /\ fleet' = get_status(fleet)
    /\ UNCHANGED <<orchVars, tasks, signal, exec, pipe, fan, clock, lastRead,
                   snapshot, lastRegistered, gen>>

\* get_fleet_status: router.get_routing_stats() returns; the dict is built
\* up to its last entry, "total_agents": len(self.agents) first, and the
\* coroutine waits for memory.get_stats()
get_fleet_status_routing_stats_return ==
    /\ fleet.pc = "routing_stats"
    /\ fleet' = [fleet EXCEPT
                    !.pc = "memory_stats",
                    !.total_agents =
                        Cardinality({ a \in AgentIds : agents[a] # NoAgent })]
    /\ UNCHANGED <<orchVars, tasks, signal, exec, pipe, fan, clock, lastRead,
                   snapshot, lastRegistered, gen>>

\* get_fleet_status: memory.get_stats() returns, and get_status returns the
\* dict (the statistics of the router and of the store are opaque here)
get_fleet_status_returns ==
    /\ fleet.pc = "memory_stats"
    /\ fleet' = [fleet EXCEPT !.pc = "idle", !.status = "fleet_status"]
    /\ UNCHANGED <<orchVars, tasks, signal, exec, pipe, fan, clock, lastRead,
                   snapshot, lastRegistered, gen>>

\* The calls on the fleet and the steps of what they started. One caller
\* awaits initialize, the execute* methods, export_state and import_state,
\* one call after the other; get_status is awaited from another callback and
\* agents are registered at any moment. The agent is TestExecutor, a
\* TestExecutorAgent that does not learn; fleet.execute and the item of the
\* batch are separate dispatches of it, so the later one may find the earlier
\* one's last_execution and store potential_flaky_tests. The states
\* imported are the last one exported and one without a "memory" entry. The
\* store does not raise here. execute_fan_out_fan_in raises TypeError at
\* its call of operate, the coordinator being an agent of the base class.
NextFleet ==
    \/ register_agent(TestExecutor)
    \/ /\ calls[MaxCalls].pc \in {"idle", "returned", "raised"}
       /\ batch.pc # "running"
       /\ pipe.pc # "flow"
       /\ fan.pc \in {"idle", "returned", "raised"}
       /\ snapshot.pc \in {"idle", "returned"}
       /\ \/ fleet_initialize
          \/ \E m \in ExecuteMethods : fleet_execute(m)
          \/ call_export_state
          \/ \E state \in ImportedStates, policy \in {"replace", "merge"} :
                QEFleet_import_state(state, policy) /\ UNCHANGED lastRead
    \/ fleet_get_status
    \/ get_fleet_status_routing_stats_return
    \/ get_fleet_status_returns
    \/ \E ttls \in {"absolute", "relative"} : memory_export_returns(ttls)
    \/ routing_stats_return("routing_stats")
    \/ \E c \in CallIds : TestExecutorAgent_retrieve_returns(c)
    \/ \E c \in CallIds, r \in SuccessRates :
          TestExecutorAgent_operate_returns(c, r)
    \/ \E c \in CallIds : TestExecutorAgent_store_ok(c)
    \/ \E c \in CallIds : TestExecutorAgent_flaky_store_ok(c)
    \/ \E c \in CallIds : execute_raises(c)
    \/ \E c \in CallIds : post_store_ok(c)
    \/ \E c \in CallIds : err_store_ok(c)
    \/ flow_start(1)
    \/ operation_completes(1)
    \/ operation_fails(1)
    \/ flow_returns
    \/ run_agent(1)
    \/ alcall_returns
    \/ alcall_raises

SpecFleet == Init /\ [][NextFleet]_vars

\* ============================================================= claims
Ended(c) == calls[c].pc \in {"returned", "raised"}

\* C1: for a registered agent and a PENDING task, a returning execute_agent
\* leaves the task COMPLETED with result set and error unset, a raising one
\* leaves it FAILED with error set and result unset.
C1_DispatchLeavesTaskSettled ==
    \A c \in CallIds :
        (calls[c].status0 = "PENDING" /\ calls[c].agent # NoAgent) =>
            LET task == tasks[calls[c].task]
            IN  /\ calls[c].pc = "returned" =>
                      /\ task.status = "COMPLETED"
                      /\ task.result # NoResult
                      /\ task.error = None
                /\ calls[c].pc = "raised" =>
                      /\ task.status = "FAILED"
                      /\ task.error # None
                      /\ task.result = NoResult

\* C2: a batch never raises: an item that failed has a failure marker (None)
\* at its index and every sibling ran to an outcome of its own.
C2_BatchIsolatesItemFailures ==
    (batch.pc # "running" /\ \E i \in Items : calls[i].pc # "idle") =>
        /\ batch.pc = "returned"
        /\ Len(batch.results) = Len(batch.agent_ids)
        /\ \A i \in Items :
              /\ Ended(i)
              /\ calls[i].pc = "raised" => batch.results[i] = NoResult

\* C3: the list execute_parallel returns holds at index i the outcome of the
\* pair (agent_ids[i], tasks[i]), whatever order the items ended in.
C3_ResultsKeepInputOrder ==
    batch.pc = "returned" =>
        /\ Len(batch.results) = Len(tasks_with_agents)
        /\ \A i \in 1..Len(batch.results) :
              /\ batch.results[i].agent_id = batch.agent_ids[i]
              /\ batch.results[i].context = batch.tasks[i]

\* a returned batch of two different items, the second of which ended first
C3_Witness ==
    /\ batch.pc = "returned"
    /\ Len(batch.results) >= 2
    /\ batch.results[1] # batch.results[2]
    /\ finished[1] = 2

\* C6: no task has both result and error set, and a PENDING or IN_PROGRESS
\* task has neither.
C6_ResultAndErrorExclusive ==
    \A t \in TaskIds :
        /\ ~(tasks[t].result # NoResult /\ tasks[t].error # None)
        /\ tasks[t].status \in {"PENDING", "IN_PROGRESS"} =>
              (tasks[t].result = NoResult /\ tasks[t].error = None)

\* a COMPLETED task was dispatched again, the dispatch failed, and the task
\* still holds its result and no error
C6_Witness ==
    \E c \in CallIds :
        /\ calls[c].pc = "raised"
        /\ calls[c].status0 = "COMPLETED"
        /\ tasks[calls[c].task].status = "COMPLETED"
        /\ tasks[calls[c].task].result # NoResult
        /\ tasks[calls[c].task].error = None

\* C7: when agent.execute raised, the call ends with the task FAILED with
\* the agent's error message and with the agent's exception raised to the
\* caller.
C7_AgentErrorRecordedAndReraised ==
    \A c \in CallIds :
        (calls[c].pc = "raised" /\ calls[c].site = "execute") =>
            /\ tasks[calls[c].task].status = "FAILED"
            /\ tasks[calls[c].task].error = "AgentError"
            /\ calls[c].out = "AgentError"

\* an error record of task t under some agent's namespace
HasErrorRecord(t) ==
    \E k \in DOMAIN memory : k[3] = "tasks" /\ k[4] = t /\ k[5] = "error"

\* C8: every failure that reaches the caller has its error record in the
\* store.
C8_FailureRecordedBeforePropagating ==
    \A c \in CallIds : calls[c].pc = "raised" => HasErrorRecord(calls[c].task)

\* C9: a failing store of the agent's result does not fail the dispatch:
\* execute_agent returns the agent's result.
C9_ResultStoreFailureTolerated ==
    \A c \in CallIds :
        (Ended(c) /\ calls[c].site = "post_store") =>
            /\ calls[c].pc = "returned"
            /\ calls[c].out = None

\* C10: a failing store of the learning trajectory does not fail the task:
\* it ends COMPLETED and the dispatch returns the agent's result.
C10_LearningIsBestEffort ==
    \A c \in CallIds :
        (Ended(c) /\ calls[c].site = "learn_store") =>
            /\ calls[c].pc = "returned"
            /\ tasks[calls[c].task].status = "COMPLETED"
            /\ tasks[calls[c].task].result = calls[c].result

\* C4: the number of items that started an attempt and have not finished it
\* never exceeds the concurrency cap.
C4_InFlightWithinCap == Cardinality(InFlight) <= max_concurrent

\* the cap is reached while a started item waits for a slot
C4_Witness ==
    /\ Cardinality(InFlight) = max_concurrent
    /\ \E i \in Files : exec.item[i] = "waiting"

TaskLegalStep(a, b) ==
    \/ /\ a.status = "PENDING"
       /\ b = [a EXCEPT !.status = "IN_PROGRESS", !.agent_id = b.agent_id]
    \/ /\ a.status = "IN_PROGRESS"
       /\ b = [a EXCEPT !.status = "COMPLETED", !.result = b.result]
    \/ /\ a.status = "IN_PROGRESS"
       /\ b = [a EXCEPT !.status = "FAILED", !.error = b.error]

TransitionAllowed(status, method) ==
    \/ status = "PENDING" /\ method = "mark_in_progress"
    \/ status = "IN_PROGRESS" /\ method \in {"mark_completed", "mark_failed"}

\* C5: a task changes only by PENDING -> IN_PROGRESS, IN_PROGRESS -> COMPLETED
\* and IN_PROGRESS -> FAILED, each through its own method; every other
\* attempted transition raises TaskStateError and leaves the task unchanged.
C5_OnlyLegalTransitions ==
    [][\A t \in TaskIds :
          /\ tasks'[t] # tasks[t] =>
                /\ TaskLegalStep(tasks[t], tasks'[t])
                /\ signal'.task = t
                /\ signal'.ok
          /\ (signal' # signal /\ signal'.task = t) =>
                /\ signal'.ok <=> TransitionAllowed(tasks[t].status, signal'.method)
                /\ ~signal'.ok => tasks'[t] = tasks[t]]_vars

\* a second mark_completed on a COMPLETED task raised and changed nothing
C5_Witness ==
    /\ signal.method = "mark_completed"
    /\ ~signal.ok
    /\ tasks[signal.task].status = "COMPLETED"

\* C11: execute_agent with an agent id that is not registered raises the
\* agent-not-found error and does nothing else: no hook and no execute runs,
\* the task, the metrics and the store stay as they were.
C11_UnknownAgentOnlyRaises ==
    [][\A c \in CallIds :
          (/\ calls[c].pc = "idle"
           /\ calls'[c].pc # "idle"
           /\ agents[calls'[c].agent_id] = NoAgent) =>
              /\ calls'[c].pc = "raised"
              /\ calls'[c].out = "AgentNotFound"
              /\ calls'[c].agent = NoAgent
              /\ UNCHANGED <<tasks, agentMetrics, metrics, memory, agents>>
              /\ \A d \in CallIds \ {c} : calls'[d] = calls[d]]_vars

\* a dispatch to an unregistered id has raised while another agent is
\* registered, and its task is still PENDING
C11_Witness ==
    \E c \in CallIds :
        /\ calls[c].pc = "raised"
        /\ calls[c].out = "AgentNotFound"
        /\ tasks[calls[c].task].status = "PENDING"
        /\ \E a \in AgentIds : agents[a] # NoAgent
        /\ memory = << >>

\* the dispatches to agent object o that ended in state pc
DispatchesOf(o, pc) ==
    Cardinality({ c \in CallIds : calls[c].agent = o /\ calls[c].pc = pc })

\* C12: once the dispatches to an agent have ended, its tasks_completed is
\* the number of dispatches that returned and its tasks_failed the number
\* that raised: every dispatch counted once, in one counter.
C12_EachDispatchCountedOnce ==
    (\A c \in CallIds : calls[c].pc \in {"idle", "returned", "raised"}) =>
        \A o \in AgentObjs :
            /\ agentMetrics[o].tasks_completed = DispatchesOf(o, "returned")
            /\ agentMetrics[o].tasks_failed = DispatchesOf(o, "raised")

\* C13: pipeline stages run in strict sequence: stage k+1 has not started
\* as long as stage k has not reached a terminal state.
C13_StagesInStrictSequence ==
    \A k \in 1..(Len(pipe.nodes) - 1) :
        pipe.nodes[k + 1].status # "pending" => Terminal(pipe.nodes[k])

\* the last stage of a full-length pipeline runs after its predecessors ended
C13_Witness ==
    /\ Len(pipe.nodes) = MaxStages
    /\ pipe.nodes[MaxStages].status = "running"
    /\ \A k \in 1..(MaxStages - 1) : pipe.nodes[k].status = "completed"

\* C14: a pipeline fails fast: once stage k has failed no later stage starts,
\* and the call does not return normally but raises the stage's error.
C14_PipelineFailsFast ==
    \A k \in 1..Len(pipe.nodes) :
        pipe.nodes[k].status = "failed" =>
            /\ \A j \in (k + 1)..Len(pipe.nodes) : pipe.nodes[j].status = "pending"
            /\ pipe.pc # "returned"

\* C15: an execute_pipeline call that completes adds exactly 1 to
\* workflows_executed and the number of its stages to total_agents_used.
C15_PipelineMetrics ==
    [][(pipe.pc # "returned" /\ pipe'.pc = "returned") =>
          /\ metrics'.workflows_executed = metrics.workflows_executed + 1
          /\ metrics'.total_agents_used =
                metrics.total_agents_used + Len(pipe'.pipeline)]_vars

\* a second pipeline, of another length than the first, has completed
C15_Witness ==
    /\ pipe.pc = "returned"
    /\ metrics.workflows_executed = 2
    /\ metrics.total_agents_used # 2 * Len(pipe.pipeline)
    /\ Len(pipe.pipeline) > 1

\* C16: a call of execute_parallel with n agent/context pairs, once it has
\* ended, has added exactly n to total_agents_used, whether or not items
\* failed.
C16_BatchCountsItsAgents ==
    (/\ batch.pc \in {"returned", "raised"}
     /\ Len(batch.agent_ids) = Len(batch.tasks)) =>
        metrics.total_agents_used = Len(batch.agent_ids)

\* the items of the timed batch whose result alcall has taken
Reported == { i \in Files : exec.item[i] = "done" }

\* C17: every item is attempted at least once and at most R times; the
\* attempts stop at the first success, and an item is reported failed only
\* after R failed attempts.
C17_AttemptsBounded ==
    exec.pc = "running" =>
        \A i \in Reported :
            /\ exec.attempts[i] >= 1
            /\ exec.attempts[i] <= retry_attempts
            /\ ~exec.results[i].passed => exec.attempts[i] = retry_attempts

\* C18: an attempt that hit the per-attempt timeout is one failed attempt:
\* its item is attempted again while attempts remain, and the batch goes on.
C18_TimeoutIsRetried ==
    exec.pc = "running" =>
        \A i \in Files :
            (/\ exec.results[i].timeout
             /\ exec.attempts[i] < retry_attempts) => exec.item[i] = "running"

\* C19: two successive items of a batch start at least throttle_period
\* apart.
C19_StartsThrottled ==
    exec.pc = "running" =>
        \A i \in Files :
            (i + 1 \in Files /\ exec.start_at[i + 1] >= 0) =>
                /\ exec.start_at[i] >= 0
                /\ exec.start_at[i + 1] - exec.start_at[i] >= throttle_period

\* the second file started exactly throttle_period after the first, whose
\* run had ended before, and the third later than that after the second
C19_Witness ==
    /\ exec.pc = "running"
    /\ exec.test_files = MaxTimedFiles
    /\ exec.start_at[2] - exec.start_at[1] = throttle_period
    /\ exec.start_at[3] - exec.start_at[2] > throttle_period

\* the workers that were invoked: the run_agent coroutines that have started
WorkersInvoked == { c \in CallIds : calls[c].pc # "idle" }

\* C20: no worker is invoked unless the decomposition succeeded: with an
\* unregistered coordinator or a failed decomposition the call has raised
\* and no worker was invoked.
C20_NoWorkerWithoutDecomposition ==
    /\ fan.pc \in {"idle", "decompose"} => WorkersInvoked = {}
    /\ (fan.pc # "idle" /\ ~fan.registered) =>
          (fan.pc = "raised" /\ fan.out = "CoordinatorNotFound" /\ WorkersInvoked = {})
    /\ fan.out \in {"TypeError", "DecompositionError"} =>
          (fan.pc = "raised" /\ WorkersInvoked = {})

\* the decomposition failed while every worker asked for was registered
C20_Witness ==
    /\ fan.pc = "raised"
    /\ fan.out = "DecompositionError"
    /\ Len(fan.worker_agents) = MaxCalls
    /\ \A i \in 1..Len(fan.worker_agents) : agents[fan.worker_agents[i]] # NoAgent
    /\ WorkersInvoked = {}

\* C21: a failing worker does not abort execute_fan_out_fan_in: once the
\* fan-out is over, the worker's slot of worker_results holds a failure
\* marker and the call has not raised because of the worker.
C21_WorkerFailureCarriedToSynthesis ==
    \A i \in Items :
        (/\ fan.pc \in {"synthesize", "returned", "raised"}
         /\ calls[i].pc = "raised") =>
            /\ fan.out # "WorkerError"
            /\ batch.pc = "returned"
            /\ batch.results[i] = NoResult

\* C22: a dispatch cut off by the caller's deadline gives the caller a
\* timeout, not an agent error, and is abandoned: it takes no further step,
\* so a task found COMPLETED was completed by another dispatch.
C22_DeadlineAbandonsDispatch ==
    \A c \in CallIds :
        calls[c].out = "TimeoutError" =>
            /\ calls[c].pc = "cancelled"
            /\ tasks[calls[c].task].status = "COMPLETED" =>
                  \E d \in CallIds \ {c} :
                      calls[d].task = calls[c].task /\ calls[d].pc = "returned"

\* the deadline expired while the agent was executing a task that was
\* PENDING: the task is left IN_PROGRESS without a result
C22_Witness ==
    \E c \in CallIds :
        /\ calls[c].pc = "cancelled"
        /\ calls[c].site = "execute"
        /\ calls[c].status0 = "PENDING"
        /\ tasks[calls[c].task].status = "IN_PROGRESS"
        /\ tasks[calls[c].task].result = NoResult
        /\ \E d \in CallIds \ {c} : calls[d].pc = "returned"

\* ttl seconds have passed, at time t, since the entry was stored
TtlPassed(e, t) == e.ttl # NoTTL /\ t >= e.stored_at + e.ttl

\* C23: a read never raises and never returns a missing or expired entry:
\* retrieve gives absent for a key that is missing or whose ttl has passed,
\* and search leaves such keys out, at every later time.
C23_ExpiredIsAbsent ==
    /\ ~lastRead.raised
    /\ lastRead.op = "retrieve" =>
          ((lastRead.arg \notin DOMAIN memory
             \/ TtlPassed(memory[lastRead.arg], lastRead.at))
              => lastRead.found = << >>)
    /\ lastRead.op = "search" =>
          \A k \in DOMAIN lastRead.found :
              k \in DOMAIN memory /\ ~TtlPassed(memory[k], lastRead.at)

\* a key stored with a ttl is read later than its expiry and is absent,
\* while the store still holds its entry
C23_Witness ==
    /\ lastRead.op = "retrieve"
    /\ lastRead.arg \in DOMAIN memory
    /\ memory[lastRead.arg].ttl # NoTTL
    /\ lastRead.at > memory[lastRead.arg].stored_at + memory[lastRead.arg].ttl
    /\ lastRead.found = << >>

\* the key and the value of the store a call is about to make
StoreSteps == {"exec_store", "flaky_store", "post_store", "learn_store",
               "err_store"}
StoreKey(c) ==
    full_key(calls[c].agent,
             IF calls[c].pc = "exec_store" THEN <<"last_execution">>
             ELSE IF calls[c].pc = "flaky_store" THEN <<"potential_flaky_tests">>
             ELSE IF calls[c].pc = "post_store" THEN result_key(calls[c].task)
             ELSE IF calls[c].pc = "learn_store" THEN trajectory_key(calls[c].task)
             ELSE error_key(calls[c].task))
StoreValue(c) ==
    IF calls[c].pc = "exec_store" THEN calls[c].result
    ELSE IF calls[c].pc = "flaky_store"
         THEN [current_rate |-> calls[c].result.success_rate,
               previous_rate |->
                   IF "success_rate" \in DOMAIN calls[c].previous_results[1]
                   THEN calls[c].previous_results[1].success_rate
                   ELSE None]
    ELSE IF calls[c].pc = "post_store" THEN calls[c].result
    ELSE IF calls[c].pc = "learn_store"
         THEN trajectory(tasks[calls[c].task], calls[c].result)
         ELSE error_record(tasks[calls[c].task], calls[c].exc)

\* C24: last writer wins and writes are independent: whenever the store
\* changes, one dispatch has made its store, its key now holds the value
\* of that store, and the entry of every other key is what it was.
C24_LastWriterWins ==
    [][memory' # memory =>
         \E c \in CallIds :
            /\ calls[c].pc \in StoreSteps
            /\ calls'[c].pc # calls[c].pc
            /\ StoreKey(c) \in DOMAIN memory'
            /\ memory'[StoreKey(c)].value = StoreValue(c)
            /\ \A j \in DOMAIN memory \ {StoreKey(c)} :
                  j \in DOMAIN memory' /\ memory'[j] = memory[j]]_vars

\* two dispatches stored different errors under one key, and the key holds
\* the error of the later one while a key written by neither is still there
C24_Witness ==
    \E i, j \in 1..Len(finished) :
        LET c == finished[i]
            d == finished[j]
            k == full_key(calls[d].agent, error_key(calls[d].task))
        IN  /\ i < j
            /\ calls[c].pc = "raised" /\ calls[d].pc = "raised"
            /\ calls[c].out # "StoreError" /\ calls[d].out # "StoreError"
            /\ calls[c].task = calls[d].task
            /\ calls[c].agent.agent_id = calls[d].agent.agent_id
            /\ calls[c].exc # calls[d].exc
            /\ k \in DOMAIN memory
            /\ memory[k].value.error = calls[d].exc

C26_RegistryLastWriteWins ==
    \A a \in AgentIds : get_agent(a) = lastRegistered[a]

\* an id was registered twice: a dispatch still runs the first object while
\* get_agent gives the second, and another id was never registered
C26_Witness ==
    \E c \in CallIds, a, b \in AgentIds :
        /\ calls[c].agent # NoAgent
        /\ calls[c].agent.agent_id = a
        /\ get_agent(a) # NoAgent
        /\ get_agent(a) # calls[c].agent
        /\ get_agent(b) = NoAgent
        /\ fan.pc # "idle"

\* C27: get_learned_patterns returns exactly the patterns the agent itself
\* stored that have not expired, and none stored under another agent_id.
C27_PatternsAreTheAgentsOwn ==
    lastRead.op = "get_learned_patterns" =>
        lastRead.found =
            [k \in {k \in DOMAIN memory :
                       /\ memory[k].partition = "patterns"
                       /\ memory[k].value.learned_by = lastRead.arg
                       /\ ~TtlPassed(memory[k], lastRead.at)}
               |-> memory[k].value]

\* C29: whenever TestGeneratorAgent.execute has run with a coverage
\* estimate that reaches the target, the agent's patterns_learned has grown
\* by exactly 1 and the pattern is in the store; with an estimate below the
\* target patterns_learned is what it was.
C29_LearnsWhenTargetReached ==
    [][(/\ lastRead'.op = "execute"
        /\ (lastRead.op # "execute" \/ lastRead.arg # lastRead'.arg)) =>
          LET a == lastRead'.arg
          IN  \A o \in Learners : o.agent_id = a.agent_id =>
                IF a.coverage_estimate >= a.coverage_target
                THEN /\ agentMetrics'[o].patterns_learned
                          = agentMetrics[o].patterns_learned + 1
                     /\ pattern_key(o.agent_id, "pytest_unit_pattern")
                          \in DOMAIN memory'
                ELSE agentMetrics'[o].patterns_learned
                          = agentMetrics[o].patterns_learned]_vars

\* C28: a test file whose run failed (non-zero exit, timeout or error) has
\* been run again, at most 3 attempts in all, when it is reported failed.
C28_FailedRunIsRetried ==
    \A i \in Reported :
        ~exec.results[i].passed =>
            /\ exec.attempts[i] > 1
            /\ exec.attempts[i] <= retry_attempts

\* C30: a dispatch that returned has gone through mark_in_progress,
\* pre_execution_hook, execute, post_execution_hook and mark_completed,
\* once each and in this order, with no hook invoked from inside execute
\* and without error_handler.
C30_StepsOfASuccessfulDispatch ==
    \A c \in CallIds :
        calls[c].pc = "returned" =>
            calls[c].steps = <<"mark_in_progress", "pre_execution_hook",
                               "execute", "post_execution_hook", "mark_completed">>

\* a learning agent's dispatch has returned with its result and trajectory
\* stored, after another dispatch went through error_handler
C30_Witness ==
    \E c, d \in CallIds :
        /\ calls[c].pc = "returned"
        /\ calls[c].agent.enable_learning
        /\ full_key(calls[c].agent, trajectory_key(calls[c].task)) \in DOMAIN memory
        /\ tasks[calls[c].task].status = "COMPLETED"
        /\ calls[d].pc = "raised"
        /\ calls[d].agent # NoAgent
        /\ Len(calls[d].steps) >= 2
        /\ calls[d].steps[Len(calls[d].steps) - 1] = "error_handler"

\* C31: after its k-th attempt has failed with attempts left, an item is
\* due for attempt k+1 at backoff * 2^(k-1) (2 s, 4 s, ...) after the end
\* of that attempt.
C31_RetryAfterBackoff ==
    exec.pc = "running" =>
        \A i \in Files :
            (/\ exec.results[i].ran
             /\ ~exec.results[i].passed
             /\ exec.attempts[i] < retry_attempts) =>
                exec.retry_due[i] = exec.ended_at[i]
                    + retry_backoff * 1000 * 2 ^ (exec.attempts[i] - 1)

\* C32: when a batch has returned, the results hold one entry per file and
\* every file has a terminal outcome: it passed, or it failed after
\* retry_attempts attempts.
C32_BatchReturns ==
    exec.pc = "returned" =>
        /\ DOMAIN exec.results = 1..exec.test_files
        /\ \A i \in Files :
              /\ exec.item[i] = "done"
              /\ exec.results[i].ran
              /\ exec.results[i].passed \/ exec.attempts[i] = retry_attempts

\* C33: the three phases run in order: no worker starts before the
\* decomposition is there, the synthesis is requested once, after every
\* worker item has ended, and the synthesis returned is the answer to that
\* request.
C33_PhasesInOrder ==
    /\ fan.pc \in {"idle", "decompose"} =>
          (\A c \in CallIds : calls[c].pc = "idle") /\ fan.requests = 0
    /\ fan.pc = "workers" => fan.requests = 0
    /\ fan.pc \in {"synthesize", "returned"} =>
          /\ fan.requests = 1
          /\ batch.pc = "returned"
          /\ \A i \in Items : calls[i].pc \in {"returned", "raised"}
    /\ fan.pc = "returned" => fan.ret.synthesis = fan.synthesis

\* the call has returned the coordinator's answer after two workers, which
\* ended in the reverse of their order, both returned
C33_Witness ==
    /\ fan.pc = "returned"
    /\ fan.ret.synthesis = "summary"
    /\ Len(fan.ret.worker_results) = 2
    /\ finished = <<2, 1>>
    /\ calls[1].pc = "returned" /\ calls[2].pc = "returned"

\* C37: a fan-out/fan-in call that returned gives one worker result and
\* one decomposition entry per worker id, and decomposition[i] is the
\* subtask worker i was given.
C37_OneSubtaskPerWorker ==
    fan.pc = "returned" =>
        /\ Len(fan.ret.worker_results) = Len(fan.worker_agents)
        /\ Len(fan.ret.decomposition) = Len(fan.worker_agents)
        /\ \A i \in 1..Len(fan.worker_agents) :
              fan.ret.decomposition[i] = tasks[i].context

\* C34: a task is single-attempt: a COMPLETED or FAILED task is never
\* changed again, and an execute_agent call that is handed one does not
\* reach the agent's execute.
C34_TaskIsSingleAttempt ==
    [][\A t \in TaskIds :
          tasks[t].status \in {"COMPLETED", "FAILED"} =>
              /\ tasks'[t] = tasks[t]
              /\ \A c \in CallIds :
                    (/\ calls[c].pc = "idle"
                     /\ calls'[c].pc # "idle"
                     /\ calls'[c].task = t) =>
                        \A k \in 1..Len(calls'[c].steps) :
                            calls'[c].steps[k] # "execute"]_vars

\* a task that had FAILED with the agent's error was dispatched again: the
\* second dispatch raised without running execute and the task holds the
\* first error
C34_Witness ==
    \E c \in CallIds :
        /\ calls[c].status0 = "FAILED"
        /\ calls[c].pc = "raised"
        /\ calls[c].exc = "TaskStateError"
        /\ calls[c].steps = <<"mark_in_progress", "error_handler">>
        /\ tasks[calls[c].task].status = "FAILED"
        /\ tasks[calls[c].task].error = "AgentError"

\* C35: once an execute_agent call has ended, by returning, by raising or
\* by being cancelled at the caller's deadline, the task it moved to
\* IN_PROGRESS is COMPLETED or FAILED.
C35_NoTaskLeftInProgress ==
    \A c \in CallIds :
        (/\ calls[c].pc \in {"returned", "raised", "cancelled"}
         /\ calls[c].status0 = "PENDING"
         /\ calls[c].agent # NoAgent) =>
            tasks[calls[c].task].status \in {"COMPLETED", "FAILED"}

\* C36: an execute_parallel call that returned gives one result per agent
\* id, and total_agents_used has grown by that number, also when agent_ids
\* and tasks differ in length.
C36_OneResultPerAgentId ==
    batch.pc = "returned" =>
        /\ Len(batch.results) = Len(batch.agent_ids)
        /\ metrics.total_agents_used = Len(batch.results)

\* C38: a call of execute_pipeline with an unregistered id in its list
\* raises with no stage executed, the stages before that id included, and
\* a call that raises leaves the orchestrator's metrics as they were.
C38_UnregisteredStageRaisesFirst ==
    [][(pipe' # pipe /\ pipe.pc \in {"idle", "returned", "raised"}) =>
          /\ (\E i \in 1..Len(pipe'.pipeline) :
                  agents[pipe'.pipeline[i]] = NoAgent) =>
                 /\ pipe'.pc = "raised"
                 /\ pipe'.nodes = << >>
          /\ pipe'.pc = "raised" => metrics' = metrics]_vars

\* after a pipeline that returned, a pipeline whose second id is not
\* registered has raised; nothing of it ran and nothing was counted
C38_Witness ==
    /\ pipe.pc = "raised"
    /\ Len(pipe.pipeline) >= 2
    /\ agents[pipe.pipeline[1]] # NoAgent
    /\ agents[pipe.pipeline[2]] = NoAgent
    /\ pipe.nodes = << >>
    /\ metrics.workflows_executed = 1
    /\ metrics.total_agents_used = 1

\* C39: no counter update is lost or doubled: once a batch and all its
\* dispatches have ended, every agent's tasks_completed + tasks_failed is
\* the number of tasks dispatched to it, and total_agents_used is the size
\* of the batch.
C39_CountersMatchDispatches ==
    (/\ batch.pc \in {"returned", "raised"}
     /\ \A i \in Items : calls[i].pc \in {"returned", "raised", "cancelled"}) =>
        /\ \A o \in AgentObjs :
              agentMetrics[o].tasks_completed + agentMetrics[o].tasks_failed
                  = Cardinality({c \in CallIds : calls[c].agent = o})
        /\ metrics.total_agents_used = Len(batch.agent_ids)

\* C40: get_status answers not_initialized, at once, exactly when neither
\* initialize nor an execute* method was called on the fleet before it, and
\* else waits for the orchestrator and answers with the fleet status; no
\* step of get_status initializes the fleet; once an execute* method was
\* called the fleet is initialized, and nothing is dispatched on a fleet
\* that is not; initialize runs past its check once at most; an initialized
\* fleet stays initialized, and no registered agent is lost. (import_state
\* asks for no initialization and dispatches nothing, so the store is not
\* among what only an initialized fleet changes.)
C40_FleetInitialization ==
    [][/\ (fleet.pc = "idle" /\ fleet'.pc = "idle"
              /\ fleet'.status # fleet.status) =>
            /\ ~fleet.called
            /\ fleet'.status = "not_initialized"
       /\ (fleet.pc = "idle" /\ fleet'.pc # "idle") =>
            /\ fleet.called
            /\ fleet'.pc = "routing_stats"
            /\ fleet'.status = None
       /\ (fleet.pc # "idle" /\ fleet'.pc = "idle") =>
            /\ fleet.pc = "memory_stats"
            /\ fleet.called
            /\ fleet'.status = "fleet_status"
       /\ fleet'.pc # "idle" => fleet'.status = None
       /\ (fleet'.pc # fleet.pc \/ fleet'.status # fleet.status) =>
            /\ fleet'.initialized = fleet.initialized
            /\ fleet'.inits = fleet.inits
            /\ fleet'.called = fleet.called
       /\ fleet'.called = fleet'.initialized
       /\ (<<agentMetrics, metrics, calls, finished, batch>>'
              # <<agentMetrics, metrics, calls, finished, batch>>) =>
            fleet'.initialized
       /\ (tasks' # tasks \/ pipe' # pipe \/ fan' # fan) => fleet'.initialized
       /\ (fleet'.called /\ ~fleet.called) =>
              fleet'.inits = fleet.inits + 1
       /\ fleet'.inits <= 1
       /\ fleet'.initialized <=> fleet'.inits = 1
       /\ fleet.initialized => fleet'.initialized
       /\ \A a \in AgentIds : agents[a] # NoAgent => agents'[a] # NoAgent]_vars

\* get_status of a fleet that was initialized once has answered with the
\* fleet status after the agent was registered while it waited for the
\* router (no agent status, one agent counted), and both dispatches of the
\* agent, fleet.execute and the item of a batch, have returned
C40_Witness ==
    /\ fleet.pc = "idle"
    /\ fleet.status = "fleet_status"
    /\ fleet.agent_statuses = {}
    /\ fleet.total_agents = 1
    /\ fleet.inits = 1
    /\ agents[TestExecutor.agent_id] = TestExecutor
    /\ calls[MaxCalls].pc = "returned"
    /\ calls[1].pc = "returned"
    /\ metrics.workflows_executed >= 1

====
